---- MODULE Spec2Model ----
(***************************************************************************)
(* Model of the Socket.IO handler of the chat server (src/server.js,       *)
(* socketHandler): socket authentication, the activeUsers presence map,    *)
(* connection setup, the per-event handlers and the disconnect handler.    *)
(* Every handler is cut at its awaits: one action per resumption.          *)
(***************************************************************************)
EXTENDS Bags, FiniteSets, Integers, Naturals, Sequences, TLC

\* ------------------------------------------------------------------ bounds
MaxSockets == 2
MaxTasks == 2
MaxOps == 1

\* ------------------------------------------------------- persisted fixtures
Users == {"A", "B", "C"}
Ghost == "Z"
GroupIds == {"G"}
NoGroup == "nogroup"

VARIABLES
  sockUser,     \* socket id -> subject of the handshake token ("-" if none)
  sockCred,     \* socket id -> kind of credential presented
  sockSt,       \* socket id -> "auth" | "rejected" | "connected" | "closed",
                \* or "crashed" once the serving process has terminated
  setupPc,      \* socket id -> position of the io.on('connection') handler
  discPc,       \* socket id -> position of the socket.on('disconnect') handler
  rooms,        \* socket id -> rooms joined (user ids and group ids)
  activeUsers,  \* the presence map, as a set of <<userId, socketId>> entries
  userStatus,   \* User.status, persisted
  groupMembers, \* GroupChat.members, persisted
  chats,        \* Chat collection: sequence of participant pairs
  messages,     \* Message collection: sequence of records
  notifications,\* Notification collection: bag of records
  emitted,      \* events delivered to connected sockets: bag of records
  tasks         \* event handler invocations, in order of arrival

sockVars == <<sockUser, sockCred, sockSt, setupPc, discPc, rooms>>
dbVars == <<userStatus, groupMembers, chats, messages, notifications>>
vars == <<sockUser, sockCred, sockSt, setupPc, discPc, rooms, activeUsers,
          userStatus, groupMembers, chats, messages, notifications, emitted,
          tasks>>

Sockets == DOMAIN sockSt

\* ---------------------------------------------------------------- helpers
\* Friendship.find({$or: [requester, recipient], status: 'accepted'})
Friendships == {<<"A", "B">>}

FriendIds(u) ==
  {f[2] : f \in {g \in Friendships : g[1] = u}}
    \cup {f[1] : f \in {g \in Friendships : g[2] = u}}

\* Map.prototype.has / get / set / delete on activeUsers
RegHas(reg, u) == \E e \in reg : e[1] = u

RegGet(reg, u) == IF RegHas(reg, u) THEN (CHOOSE e \in reg : e[1] = u)[2] ELSE 0

RegSetDup(reg, u, s) == reg \cup {<<u, s>>}

RegSet(reg, u, s) == {e \in reg : e[1] # u} \cup {<<u, s>>}

RegDeleteAll(reg, u, s) == {}

RegDelete(reg, u, s) == {e \in reg : e[1] # u}

\* An event delivered to one socket: event name, receiving socket, message
\* id (0: none), the user it is about ("-": none), a status or group id
\* ("-": none), and the handler invocation that emitted it (0: connection
\* setup or disconnect handling).
Ev(ev, to, m, by, x, t) ==
  [ev |-> ev, to |-> to, m |-> m, by |-> by, x |-> x, t |-> t]

\* sockets that an emit addressed to the socket ids ss reaches: the room
\* named by a socket id holds that socket while it is connected
Reached(ss) == {s \in ss : s \in Sockets /\ sockSt[s] = "connected"}

\* io.to(id).emit(...) for each id of ss / socket.emit(...) for ss = {s}
EmitToSockets(bag, ss, ev, m, by, x, t) ==
  bag (+) SetToBag({Ev(ev, s, m, by, x, t) : s \in Reached(ss)})

EmitToSocket(bag, s, ev, m, by, x, t) ==
  EmitToSockets(bag, {s}, ev, m, by, x, t)

\* io.to(`group:${g}`).emit(...): every connected socket in the room
RoomSocketsNone(g) == {}

RoomSockets(g) == {s \in Sockets : sockSt[s] = "connected" /\ g \in rooms[s]}

\* friendIds.forEach: activeUsers.get(friendId), emit if truthy
FriendSockets(reg, u) == {RegGet(reg, f) : f \in {g \in FriendIds(u) : RegHas(reg, g)}}

\* ------------------------------------------------------------------- Init
\* the collections: one group of A and B, one chat of A and B with one
\* message of A
InitStore ==
  /\ groupMembers = [g \in GroupIds |-> {"A", "B"}]
  /\ chats = <<<<"A", "B">>>>
  /\ messages = <<[sender |-> "A", chat |-> 1, group |-> "-", readBy |-> <<"A">>]>>
  /\ notifications = EmptyBag

\* before anybody connects: everybody offline
InitDb == InitStore /\ userStatus = [u \in Users |-> "offline"]

InitNoSockets ==
  /\ sockUser = <<>>
  /\ sockCred = <<>>
  /\ sockSt = <<>>
  /\ setupPc = <<>>
  /\ discPc = <<>>
  /\ rooms = <<>>
  /\ activeUsers = {}
  /\ emitted = EmptyBag
  /\ tasks = <<>>

Init == InitDb /\ InitNoSockets

\* The state after the users of the sequence us (distinct) have connected,
\* one socket each, and their connection setup has completed.
InitConnected(us) ==
  /\ sockUser = us
  /\ sockCred = [s \in DOMAIN us |-> "jwt"]
  /\ sockSt = [s \in DOMAIN us |-> "connected"]
  /\ setupPc = [s \in DOMAIN us |-> "done"]
  /\ discPc = [s \in DOMAIN us |-> "none"]
  /\ rooms = [s \in DOMAIN us |->
               {us[s]} \cup {g \in GroupIds : us[s] \in groupMembers[g]}]
  /\ activeUsers = {<<us[s], s>> : s \in DOMAIN us}
  /\ userStatus = [u \in Users |->
                    IF \E s \in DOMAIN us : us[s] = u THEN "online" ELSE "offline"]
  /\ emitted = EmptyBag
  /\ tasks = <<>>

\* ----------------------------------------------- io.use: authentication
Tokens(subjects) ==
  {[kind |-> "none", sub |-> "-"], [kind |-> "bad", sub |-> "-"]}
    \cup {[kind |-> "jwt", sub |-> u] : u \in subjects}

\* the synchronous part: token present and jwt.verify does not throw
TokenVerifies(tok) == tok.kind = "jwt"

\* the user lookup: the query resolved and returned a document
UserFoundAny(sub, ok) == ok

UserFound(sub, ok) == ok /\ sub \in Users

\* the serving process is running
Up == \A s \in Sockets : sockSt[s] # "crashed"

\* a client opens a connection; the middleware runs up to User.findById
Handshake(tok) ==
  /\ Up /\ Len(sockSt) < MaxSockets
  /\ sockUser' = Append(sockUser, tok.sub)
  /\ sockCred' = Append(sockCred, tok.kind)
  /\ sockSt' = Append(sockSt, IF TokenVerifies(tok) THEN "auth" ELSE "rejected")
  /\ setupPc' = Append(setupPc, "none")
  /\ discPc' = Append(discPc, "none")
  /\ rooms' = Append(rooms, {})
  /\ UNCHANGED <<activeUsers, dbVars, emitted, tasks>>

\* User.findById resolves; next() or next(Error).  On next() the connection
\* handler starts and runs up to its first await (User.findByIdAndUpdate).
AuthFinish(s, ok) ==
  /\ s \in Sockets /\ sockSt[s] = "auth"
  /\ IF UserFound(sockUser[s], ok)
     THEN /\ sockSt' = [sockSt EXCEPT ![s] = "connected"]
          /\ setupPc' = [setupPc EXCEPT ![s] = "a1"]
     ELSE /\ sockSt' = [sockSt EXCEPT ![s] = "rejected"]
          /\ UNCHANGED setupPc
  /\ UNCHANGED <<sockUser, sockCred, discPc, rooms, activeUsers, dbVars,
                 emitted, tasks>>

\* ------------------------------------------------ io.on('connection')
\* User.findByIdAndUpdate(status online) resolves; activeUsers.set,
\* socket.join(userId); GroupChat.find is issued.  A rejection goes to the
\* catch and the handlers are attached.
Setup1(s, ok) ==
  /\ s \in Sockets /\ setupPc[s] = "a1"
  /\ IF ok
     THEN /\ userStatus' = [userStatus EXCEPT ![sockUser[s]] = "online"]
          /\ activeUsers' = RegSet(activeUsers, sockUser[s], s)
          /\ rooms' = [rooms EXCEPT ![s] = @ \cup {sockUser[s]}]
          /\ setupPc' = [setupPc EXCEPT ![s] = "a2"]
     ELSE /\ setupPc' = [setupPc EXCEPT ![s] = "done"]
          /\ UNCHANGED <<userStatus, activeUsers, rooms>>
  /\ UNCHANGED <<sockUser, sockCred, sockSt, discPc, groupMembers, chats,
                 messages, notifications, emitted, tasks>>

\* GroupChat.find resolves; the socket joins group:{id} of every group the
\* user is a member of; Friendship.find is issued.
Setup2(s, ok) ==
  /\ s \in Sockets /\ setupPc[s] = "a2"
  /\ IF ok
     THEN /\ rooms' = [rooms EXCEPT ![s] =
                 @ \cup {g \in GroupIds : sockUser[s] \in groupMembers[g]}]
          /\ setupPc' = [setupPc EXCEPT ![s] = "a3"]
     ELSE /\ setupPc' = [setupPc EXCEPT ![s] = "done"]
          /\ UNCHANGED rooms
  /\ UNCHANGED <<sockUser, sockCred, sockSt, discPc, activeUsers, dbVars,
                 emitted, tasks>>

\* Friendship.find resolves; user-status-change to every friend that has an
\* entry; active-friends to the socket; Notification.countDocuments issued.
Setup3(s, ok) ==
  /\ s \in Sockets /\ setupPc[s] = "a3"
  /\ IF ok
     THEN /\ emitted' = EmitToSocket(
                 EmitToSockets(emitted, FriendSockets(activeUsers, sockUser[s]),
                               "user-status-change", 0, sockUser[s], "online", 0),
                 s, "active-friends", 0, "-", "-", 0)
          /\ setupPc' = [setupPc EXCEPT ![s] = "a4"]
     ELSE /\ setupPc' = [setupPc EXCEPT ![s] = "done"]
          /\ UNCHANGED emitted
  /\ UNCHANGED <<sockUser, sockCred, sockSt, discPc, rooms, activeUsers,
                 dbVars, tasks>>

\* countDocuments resolves; unread-notifications-count; handlers attached.
Setup4(s, ok) ==
  /\ s \in Sockets /\ setupPc[s] = "a4"
  /\ emitted' = IF ok
                THEN EmitToSocket(emitted, s, "unread-notifications-count",
                                  0, "-", "-", 0)
                ELSE emitted
  /\ setupPc' = [setupPc EXCEPT ![s] = "done"]
  /\ UNCHANGED <<sockUser, sockCred, sockSt, discPc, rooms, activeUsers,
                 dbVars, tasks>>

\* ------------------------------------------------- socket.on('disconnect')
\* The transport closes: the socket leaves its rooms and the 'disconnect'
\* event is emitted; the handler runs (up to User.findByIdAndUpdate) only
\* if the listener has been attached already.
Disconnect(s) ==
  /\ s \in Sockets /\ sockSt[s] = "connected"
  /\ sockSt' = [sockSt EXCEPT ![s] = "closed"]
  /\ rooms' = [rooms EXCEPT ![s] = {}]
  /\ discPc' = [discPc EXCEPT ![s] = IF setupPc[s] = "done" THEN "d1" ELSE "none"]
  /\ UNCHANGED <<sockUser, sockCred, setupPc, activeUsers, dbVars, emitted,
                 tasks>>

\* User.findByIdAndUpdate(status offline) resolves; activeUsers.delete;
\* Friendship.find is issued.
Disc1(s, ok) ==
  /\ s \in Sockets /\ discPc[s] = "d1"
  /\ IF ok
     THEN /\ userStatus' = [userStatus EXCEPT ![sockUser[s]] = "offline"]
          /\ activeUsers' = RegDelete(activeUsers, sockUser[s], s)
          /\ discPc' = [discPc EXCEPT ![s] = "d2"]
     ELSE /\ discPc' = [discPc EXCEPT ![s] = "done"]
          /\ UNCHANGED <<userStatus, activeUsers>>
  /\ UNCHANGED <<sockUser, sockCred, sockSt, setupPc, rooms, groupMembers,
                 chats, messages, notifications, emitted, tasks>>

\* Friendship.find resolves; user-status-change offline to present friends.
Disc2(s, ok) ==
  /\ s \in Sockets /\ discPc[s] = "d2"
  /\ emitted' = IF ok
                THEN EmitToSockets(emitted, FriendSockets(activeUsers, sockUser[s]),
                                   "user-status-change", 0, sockUser[s], "offline", 0)
                ELSE emitted
  /\ discPc' = [discPc EXCEPT ![s] = "done"]
  /\ UNCHANGED <<sockUser, sockCred, sockSt, setupPc, rooms, activeUsers,
                 dbVars, tasks>>

\* ------------------------------------------------------ handler invocations
User(i) == sockUser[tasks[i].sock]

\* One invocation: the event, its socket, the await it is suspended at,
\* its payload (a: recipientId or status, g: groupId, n: chatId or
\* messageId), its locals (chat, msg: ids of the documents saved; mem:
\* group.members; ids: messages still to update; off: offlineMembers), what
\* it answered (res), the await whose rejection took it to its catch block
\* (at), and whether and on which presence map its fanout looked the
\* recipients up (looked, reg).
Task(kind, s, pc, a, g, n) ==
  [kind |-> kind, sock |-> s, pc |-> pc, a |-> a, g |-> g, n |-> n,
   chat |-> 0, msg |-> 0, mem |-> {}, ids |-> {}, res |-> "-", at |-> "-",
   off |-> {}, looked |-> FALSE, reg |-> {}]

\* the users that have an entry in the presence map
Present(reg) == {e[1] : e \in reg}

\* an event of a client reaches a listener: the socket is connected and
\* the socket.on(...) calls at the end of the connection handler have run;
\* Listening adds the bound on the number of invocations
Attached(s) ==
  s \in Sockets /\ sockSt[s] = "connected" /\ setupPc[s] = "done"

Listening(s) == Attached(s) /\ Len(tasks) < MaxTasks

At(i, kind, pc) ==
  /\ i \in DOMAIN tasks /\ tasks[i].kind = kind /\ tasks[i].pc = pc

\* the catch block of a send handler: socket.emit('message-error'), or of
\* another handler: socket.emit('error') where the code has one
FailQuiet(i, ev) ==
  /\ emitted' = emitted
  /\ tasks' = [tasks EXCEPT ![i].pc = "done", ![i].res = "error",
                            ![i].at = tasks[i].pc]

Fail(i, ev) ==
  /\ emitted' = EmitToSocket(emitted, tasks[i].sock, ev, 0, "-", "-", i)
  /\ tasks' = [tasks EXCEPT ![i].pc = "done", ![i].res = "error",
                            ![i].at = tasks[i].pc]

\* ------------------------------------ socket.on('send-private-message')
\* Chat.findOne({participants: {$all: [a, b]}}): the first chat holding both
FindChat(cs, a, b) ==
  IF \E i \in DOMAIN cs : {a, b} \subseteq {cs[i][1], cs[i][2]}
  THEN CHOOSE i \in DOMAIN cs :
         /\ {a, b} \subseteq {cs[i][1], cs[i][2]}
         /\ \A j \in DOMAIN cs : {a, b} \subseteq {cs[j][1], cs[j][2]} => i <= j
  ELSE 0

\* new Message({sender, chatId, chatType, readBy: [{user: senderId}]})
NewMessageNoReader(sender, chat, group) ==
  [sender |-> sender, chat |-> chat, group |-> group, readBy |-> <<>>]

NewMessage(sender, chat, group) ==
  [sender |-> sender, chat |-> chat, group |-> group, readBy |-> <<sender>>]

RecvPrivate(s, r) ==
  /\ Listening(s)
  /\ tasks' = Append(tasks, Task("send-private-message", s, "find", r, "-", 0))
  /\ UNCHANGED <<sockVars, activeUsers, dbVars, emitted>>

\* Chat.findOne resolves; chat.save() is issued for the chat found or for a
\* new one
PmFind(i, ok) ==
  /\ At(i, "send-private-message", "find")
  /\ IF ok
     THEN /\ tasks' = [tasks EXCEPT ![i].pc = "saveChat",
                          ![i].chat = FindChat(chats, User(i), tasks[i].a)]
          /\ UNCHANGED emitted
     ELSE Fail(i, "message-error")
  /\ UNCHANGED <<sockVars, activeUsers, dbVars>>

\* chat.save() resolves: a new chat is inserted, an existing one updated
PmSaveChat(i, ok) ==
  /\ At(i, "send-private-message", "saveChat")
  /\ IF ok
     THEN /\ chats' = IF tasks[i].chat = 0
                      THEN Append(chats, <<User(i), tasks[i].a>>)
                      ELSE chats
          /\ tasks' = [tasks EXCEPT ![i].pc = "saveMsg",
                          ![i].chat = IF @ = 0 THEN Len(chats) + 1 ELSE @]
          /\ UNCHANGED emitted
     ELSE Fail(i, "message-error") /\ UNCHANGED chats
  /\ UNCHANGED <<sockVars, activeUsers, userStatus, groupMembers, messages,
                 notifications>>

\* message.save() resolves; message.populate is issued
PmSaveMsg(i, ok) ==
  /\ At(i, "send-private-message", "saveMsg")
  /\ IF ok
     THEN /\ messages' = Append(messages, NewMessage(User(i), tasks[i].chat, "-"))
          /\ tasks' = [tasks EXCEPT ![i].pc = "populate",
                                    ![i].msg = Len(messages) + 1]
          /\ UNCHANGED emitted
     ELSE Fail(i, "message-error") /\ UNCHANGED messages
  /\ UNCHANGED <<sockVars, activeUsers, userStatus, groupMembers, chats,
                 notifications>>

\* const recipientSocketId = activeUsers.get(recipientId) (0: undefined)
RecipientSocketId(reg, r) == RegGet(reg, r)

\* message.populate resolves; activeUsers.get(recipientId); the live event
\* if an entry exists, else notification.save() is issued
PmPopulate(i, ok) ==
  /\ At(i, "send-private-message", "populate")
  /\ IF ~ok
     THEN Fail(i, "message-error")
     ELSE IF RecipientSocketId(activeUsers, tasks[i].a) # 0
     THEN /\ emitted' = EmitToSocket(
                 EmitToSocket(emitted, RecipientSocketId(activeUsers, tasks[i].a),
                    "receive-private-message", tasks[i].msg, User(i), "-", i),
                 tasks[i].sock, "private-message-sent", tasks[i].msg, "-", "-", i)
          /\ tasks' = [tasks EXCEPT ![i].pc = "done", ![i].res = "ack",
                          ![i].looked = TRUE, ![i].reg = Present(activeUsers)]
     ELSE /\ tasks' = [tasks EXCEPT ![i].pc = "saveNotif",
                          ![i].looked = TRUE, ![i].reg = Present(activeUsers)]
          /\ UNCHANGED emitted
  /\ UNCHANGED <<sockVars, activeUsers, dbVars>>

\* new Notification({recipient, relatedMessageId, type: 'message'})
NewNotification(r, m) ==
  [recipient |-> r, msg |-> m, type |-> "message", isRead |-> FALSE]

\* notification.save() resolves; private-message-sent
PmSaveNotif(i, ok) ==
  /\ At(i, "send-private-message", "saveNotif")
  /\ IF ok
     THEN /\ notifications' =
               notifications (+) SetToBag({NewNotification(tasks[i].a, tasks[i].msg)})
          /\ emitted' = EmitToSocket(emitted, tasks[i].sock,
                           "private-message-sent", tasks[i].msg, "-", "-", i)
          /\ tasks' = [tasks EXCEPT ![i].pc = "done", ![i].res = "ack"]
     ELSE Fail(i, "message-error") /\ UNCHANGED notifications
  /\ UNCHANGED <<sockVars, activeUsers, userStatus, groupMembers, chats,
                 messages>>

\* -------------------------------------- socket.on('send-group-message')
\* GroupChatSchema.methods.hasMember
HasMemberAny(members, u) == TRUE

HasMember(members, u) == u \in members

RecvGroup(s, g) ==
  /\ Listening(s)
  /\ tasks' = Append(tasks, Task("send-group-message", s, "find", "-", g, 0))
  /\ UNCHANGED <<sockVars, activeUsers, dbVars, emitted>>

\* GroupChat.findById resolves; 'Group not found' / 'Not a member of this
\* group', else group.save() is issued.  The document loaded here is the
\* one whose members the fanout uses.
GmFind(i, ok) ==
  /\ At(i, "send-group-message", "find")
  /\ IF ok /\ tasks[i].g \in GroupIds
        /\ HasMember(groupMembers[tasks[i].g], User(i))
     THEN /\ tasks' = [tasks EXCEPT ![i].pc = "saveGroup",
                                    ![i].mem = groupMembers[tasks[i].g]]
          /\ UNCHANGED emitted
     ELSE Fail(i, "message-error")
  /\ UNCHANGED <<sockVars, activeUsers, dbVars>>

\* group.save() (lastActivity) resolves; message.save() is issued
GmSaveGroup(i, ok) ==
  /\ At(i, "send-group-message", "saveGroup")
  /\ IF ok
     THEN tasks' = [tasks EXCEPT ![i].pc = "saveMsg"] /\ UNCHANGED emitted
     ELSE Fail(i, "message-error")
  /\ UNCHANGED <<sockVars, activeUsers, dbVars>>

GmSaveMsg(i, ok) ==
  /\ At(i, "send-group-message", "saveMsg")
  /\ IF ok
     THEN /\ messages' = Append(messages, NewMessage(User(i), 0, tasks[i].g))
          /\ tasks' = [tasks EXCEPT ![i].pc = "populate",
                                    ![i].msg = Len(messages) + 1]
          /\ UNCHANGED emitted
     ELSE Fail(i, "message-error") /\ UNCHANGED messages
  /\ UNCHANGED <<sockVars, activeUsers, userStatus, groupMembers, chats,
                 notifications>>

\* group.members.filter(not the sender and !activeUsers.has(member))
OfflineMembersAll(members, sender, reg) == {u \in members : u # sender}

OfflineMembers(members, sender, reg) ==
  {u \in members : u # sender /\ ~RegHas(reg, u)}

\* message.populate resolves; io.to(`group:${groupId}`).emit; the offline
\* members are computed; Notification.insertMany is issued if there are any
GmPopulate(i, ok) ==
  /\ At(i, "send-group-message", "populate")
  /\ IF ~ok
     THEN Fail(i, "message-error")
     ELSE LET off == OfflineMembers(tasks[i].mem, User(i), activeUsers)
              live == EmitToSockets(emitted, RoomSockets(tasks[i].g),
                        "receive-group-message", tasks[i].msg, User(i),
                        tasks[i].g, i)
          IN IF off = {}
             THEN /\ emitted' = EmitToSocket(live, tasks[i].sock,
                          "group-message-sent", tasks[i].msg, "-", tasks[i].g, i)
                  /\ tasks' = [tasks EXCEPT ![i].pc = "done", ![i].res = "ack",
                          ![i].looked = TRUE, ![i].reg = Present(activeUsers)]
             ELSE /\ emitted' = live
                  /\ tasks' = [tasks EXCEPT ![i].pc = "insert", ![i].off = off,
                          ![i].looked = TRUE, ![i].reg = Present(activeUsers)]
  /\ UNCHANGED <<sockVars, activeUsers, dbVars>>

\* Notification.insertMany resolves with every document inserted
\* (ins = the offline members), or rejects after inserting only ins
GmInsert(i, ins) ==
  /\ At(i, "send-group-message", "insert")
  /\ ins \subseteq tasks[i].off
  /\ notifications' =
       notifications (+) SetToBag({NewNotification(u, tasks[i].msg) : u \in ins})
  /\ IF ins = tasks[i].off
     THEN /\ emitted' = EmitToSocket(emitted, tasks[i].sock,
                  "group-message-sent", tasks[i].msg, "-", tasks[i].g, i)
          /\ tasks' = [tasks EXCEPT ![i].pc = "done", ![i].res = "ack"]
     ELSE Fail(i, "message-error")
  /\ UNCHANGED <<sockVars, activeUsers, userStatus, groupMembers, chats,
                 messages>>

\* --------------------------------------------- socket.on('typing-start')
\* chat.participants.find((id) => id !== socket.user._id): the first
\* participant that is not the caller ("-": undefined)
OtherParticipantFirst(chat, u) == chat[1]

OtherParticipant(chat, u) ==
  IF chat[1] # u THEN chat[1] ELSE IF chat[2] # u THEN chat[2] ELSE "-"

\* chatType 'GroupChat': socket.to(`group:${chatId}`).emit('typing') at
\* once; chatType 'Chat': Chat.findById is issued
RecvTypingStart(s, n, g) ==
  /\ Listening(s)
  /\ IF g = "-"
     THEN /\ tasks' = Append(tasks, Task("typing-start", s, "find", "-", g, n))
          /\ UNCHANGED emitted
     ELSE /\ tasks' = Append(tasks, Task("typing-start", s, "done", "-", g, n))
          /\ emitted' = EmitToSockets(emitted, RoomSockets(g) \ {s}, "typing",
                                      0, sockUser[s], g, Len(tasks) + 1)
  /\ UNCHANGED <<sockVars, activeUsers, dbVars>>

\* typing-start emitted without a payload: `const { chatId, chatType } =
\* data` throws a TypeError in the listener, outside any try block.  The
\* library calls listeners without catching, and the process registers no
\* 'uncaughtException' handler: the exception terminates the process, and
\* with it every connection, the presence map and every handler in flight.
RecvTypingStartNoPayload(s) ==
  /\ Listening(s)
  /\ sockSt' = [r \in Sockets |-> "crashed"]
  /\ setupPc' = [r \in Sockets |->
                   IF setupPc[r] \in {"none", "done"} THEN setupPc[r] ELSE "dead"]
  /\ discPc' = [r \in Sockets |->
                  IF discPc[r] \in {"none", "done"} THEN discPc[r] ELSE "dead"]
  /\ rooms' = [r \in Sockets |-> {}]
  /\ activeUsers' = {}
  /\ tasks' = Append(
        [i \in DOMAIN tasks |->
           IF tasks[i].pc = "done" THEN tasks[i] ELSE [tasks[i] EXCEPT !.pc = "dead"]],
        [Task("typing-start", s, "done", "-", "-", 0) EXCEPT !.res = "thrown"])
  /\ UNCHANGED <<sockUser, sockCred, dbVars, emitted>>

\* Chat.findById(chatId).then(...): typing to the other participant's
\* registered socket; .catch logs
TsFind(i, ok) ==
  /\ At(i, "typing-start", "find")
  /\ tasks' = [tasks EXCEPT ![i].pc = "done"]
  /\ emitted' =
       IF ok /\ tasks[i].n \in DOMAIN chats
       THEN LET other == OtherParticipant(chats[tasks[i].n], User(i))
            IN IF other # "-" /\ RegHas(activeUsers, other)
               THEN EmitToSocket(emitted, RegGet(activeUsers, other), "typing",
                                 0, User(i), "-", i)
               ELSE emitted
       ELSE emitted
  /\ UNCHANGED <<sockVars, activeUsers, dbVars>>

\* ----------------------------------------------- socket.on('typing-end')
\* chatType 'GroupChat': socket.to(`group:${chatId}`).emit('stop-typing') at
\* once; chatType 'Chat': Chat.findById is issued
RecvTypingEnd(s, n, g) ==
  /\ Listening(s)
  /\ IF g = "-"
     THEN /\ tasks' = Append(tasks, Task("typing-end", s, "find", "-", g, n))
          /\ UNCHANGED emitted
     ELSE /\ tasks' = Append(tasks, Task("typing-end", s, "done", "-", g, n))
          /\ emitted' = EmitToSockets(emitted, RoomSockets(g) \ {s}, "stop-typing",
                                      0, sockUser[s], g, Len(tasks) + 1)
  /\ UNCHANGED <<sockVars, activeUsers, dbVars>>

\* Chat.findById(chatId).then(...): stop-typing to the other participant's
\* registered socket; .catch logs
TeFind(i, ok) ==
  /\ At(i, "typing-end", "find")
  /\ tasks' = [tasks EXCEPT ![i].pc = "done"]
  /\ emitted' =
       IF ok /\ tasks[i].n \in DOMAIN chats
       THEN LET other == OtherParticipant(chats[tasks[i].n], User(i))
            IN IF other # "-" /\ RegHas(activeUsers, other)
               THEN EmitToSocket(emitted, RegGet(activeUsers, other),
                                 "stop-typing", 0, User(i), "-", i)
               ELSE emitted
       ELSE emitted
  /\ UNCHANGED <<sockVars, activeUsers, dbVars>>

\* --------------------------------------------- socket.on('mark-as-read')
\* message.readBy.some((read) => read.user === userId)
AlreadyReadNever(readBy, u) == FALSE

AlreadyRead(readBy, u) == \E k \in DOMAIN readBy : readBy[k] = u

\* the $push of one read-list entry
PushReadNone(msgs, m, u) == msgs

PushRead(msgs, m, u) == [msgs EXCEPT ![m].readBy = Append(@, u)]

RecvMarkRead(s, n) ==
  /\ Listening(s)
  /\ tasks' = Append(tasks, Task("mark-as-read", s, "find", "-", "-", n))
  /\ UNCHANGED <<sockVars, activeUsers, dbVars, emitted>>

\* Message.findById resolves: 'Message not found', or nothing to do when
\* the caller is in readBy already, else readBy.push and message.save()
MrFind(i, ok) ==
  /\ At(i, "mark-as-read", "find")
  /\ IF ~ok
     THEN tasks' = [tasks EXCEPT ![i].pc = "done", ![i].res = "failed",
                                ![i].at = "find"]
          /\ UNCHANGED emitted
     ELSE IF tasks[i].n \notin DOMAIN messages
     THEN Fail(i, "error")
     ELSE /\ tasks' = [tasks EXCEPT ![i].pc =
                 IF AlreadyRead(messages[tasks[i].n].readBy, User(i))
                 THEN "done" ELSE "save"]
          /\ UNCHANGED emitted
  /\ UNCHANGED <<sockVars, activeUsers, dbVars>>

\* message.save() resolves (the pushed entry is appended to the stored
\* list); message-read to the registered socket of the message's sender
MrSave(i, ok) ==
  /\ At(i, "mark-as-read", "save")
  /\ IF ok
     THEN /\ messages' = PushRead(messages, tasks[i].n, User(i))
          /\ emitted' =
               IF RegHas(activeUsers, messages[tasks[i].n].sender)
               THEN EmitToSocket(emitted,
                       RegGet(activeUsers, messages[tasks[i].n].sender),
                       "message-read", tasks[i].n, User(i), "-", i)
               ELSE emitted
          /\ tasks' = [tasks EXCEPT ![i].pc = "done", ![i].res = "pushed"]
     ELSE /\ tasks' = [tasks EXCEPT ![i].pc = "done", ![i].res = "failed",
                                    ![i].at = "save"]
          /\ UNCHANGED <<messages, emitted>>
  /\ UNCHANGED <<sockVars, activeUsers, userStatus, groupMembers, chats,
                 notifications>>

\* ----------------------------------------- socket.on('mark-all-as-read')
\* Message.find({chatId, chatType, sender: {$ne: userId},
\*               'readBy.user': {$ne: userId}})
UnreadMessages(msgs, n, g, u) ==
  {m \in DOMAIN msgs :
     /\ msgs[m].chat = n /\ msgs[m].group = g
     /\ msgs[m].sender # u
     /\ ~AlreadyRead(msgs[m].readBy, u)}

\* messages-read-all to the registered socket of every distinct sender
EmitReadAll(bag, senders, reg, u, g, i) ==
  EmitToSockets(bag, {RegGet(reg, x) : x \in {y \in senders : RegHas(reg, y)}},
                "messages-read-all", 0, u, g, i)

RecvMarkAll(s, n, g) ==
  /\ Listening(s)
  /\ tasks' = Append(tasks, Task("mark-all-as-read", s, "find", "-", g, n))
  /\ UNCHANGED <<sockVars, activeUsers, dbVars, emitted>>

\* Message.find resolves; one findByIdAndUpdate($push) per message found is
\* issued; with none found the handler goes on to its emits at once
MaFind(i, ok) ==
  /\ At(i, "mark-all-as-read", "find")
  /\ LET un == UnreadMessages(messages, tasks[i].n, tasks[i].g, User(i))
     IN IF ~ok
        THEN /\ tasks' = [tasks EXCEPT ![i].pc = "done", ![i].res = "failed"]
             /\ UNCHANGED emitted
        ELSE IF un = {}
        THEN /\ tasks' = [tasks EXCEPT ![i].pc = "done", ![i].res = "ack"]
             /\ emitted' = EmitToSocket(emitted, tasks[i].sock,
                              "marked-all-as-read", 0, "-", tasks[i].g, i)
        ELSE /\ tasks' = [tasks EXCEPT ![i].pc = "update", ![i].ids = un,
                             ![i].mem = {messages[m].sender : m \in un}]
             /\ UNCHANGED emitted
  /\ UNCHANGED <<sockVars, activeUsers, dbVars>>

\* one findByIdAndUpdate resolves.  Promise.all rejects on the first failure
\* (the catch logs; the updates still in flight go on); when the last one
\* has resolved and none failed, the read receipts are emitted.
MaUpdate(i, m, ok) ==
  /\ At(i, "mark-all-as-read", "update")
  /\ m \in tasks[i].ids
  /\ messages' = IF ok THEN PushRead(messages, m, User(i)) ELSE messages
  /\ LET left == tasks[i].ids \ {m}
         res == IF ok THEN tasks[i].res ELSE "failed"
     IN IF left = {} /\ res # "failed"
        THEN /\ emitted' = EmitToSocket(
                    EmitReadAll(emitted, tasks[i].mem, activeUsers, User(i),
                                tasks[i].g, i),
                    tasks[i].sock, "marked-all-as-read", 0, "-", tasks[i].g, i)
             /\ tasks' = [tasks EXCEPT ![i].pc = "done", ![i].ids = left,
                                       ![i].res = "ack"]
        ELSE /\ tasks' = [tasks EXCEPT ![i].ids = left, ![i].res = res,
                             ![i].pc = IF left = {} THEN "done" ELSE "update"]
             /\ UNCHANGED emitted
  /\ UNCHANGED <<sockVars, activeUsers, userStatus, groupMembers, chats,
                 notifications>>

\* ------------------------------------------------- socket.on('set-status')
\* ['online', 'away', 'offline'].includes(status)
StatusesAny == {"online", "away", "offline", "busy"}

Statuses == {"online", "away", "offline"}

\* an invalid status is answered with 'error' at once; else
\* User.findByIdAndUpdate is issued
RecvSetStatus(s, st) ==
  /\ Listening(s)
  /\ IF st \in Statuses
     THEN /\ tasks' = Append(tasks, Task("set-status", s, "update", st, "-", 0))
          /\ UNCHANGED emitted
     ELSE /\ tasks' = Append(tasks, [Task("set-status", s, "done", st, "-", 0)
                                      EXCEPT !.res = "error"])
          /\ emitted' = EmitToSocket(emitted, s, "error", 0, "-", "-",
                                     Len(tasks) + 1)
  /\ UNCHANGED <<sockVars, activeUsers, dbVars>>

\* User.findByIdAndUpdate resolves; Friendship.find is issued.  The catch
\* block only logs.
SsUpdate(i, ok) ==
  /\ At(i, "set-status", "update")
  /\ IF ok
     THEN /\ userStatus' = [userStatus EXCEPT ![User(i)] = tasks[i].a]
          /\ tasks' = [tasks EXCEPT ![i].pc = "friends"]
     ELSE /\ tasks' = [tasks EXCEPT ![i].pc = "done", ![i].res = "failed",
                                    ![i].at = "update"]
          /\ UNCHANGED userStatus
  /\ UNCHANGED <<sockVars, activeUsers, groupMembers, chats, messages,
                 notifications, emitted>>

\* Friendship.find resolves; user-status-change to every friend that has
\* an entry
SsFriends(i, ok) ==
  /\ At(i, "set-status", "friends")
  /\ IF ok
     THEN /\ emitted' = EmitToSockets(emitted, FriendSockets(activeUsers, User(i)),
                           "user-status-change", 0, User(i), tasks[i].a, i)
          /\ tasks' = [tasks EXCEPT ![i].pc = "done", ![i].res = "ack"]
     ELSE /\ tasks' = [tasks EXCEPT ![i].pc = "done", ![i].res = "failed",
                                    ![i].at = "friends"]
          /\ UNCHANGED emitted
  /\ UNCHANGED <<sockVars, activeUsers, dbVars>>

\* ------------------------- socket.on('join-group') / socket.on('leave-group')
RecvJoin(s, g) ==
  /\ Listening(s)
  /\ tasks' = Append(tasks, Task("join-group", s, "find", "-", g, 0))
  /\ UNCHANGED <<sockVars, activeUsers, dbVars, emitted>>

\* GroupChat.findById resolves: socket.join and joined-group for a member
JgFind(i, ok) ==
  /\ At(i, "join-group", "find")
  /\ IF ok /\ tasks[i].g \in GroupIds
        /\ HasMember(groupMembers[tasks[i].g], User(i))
     THEN /\ rooms' = [rooms EXCEPT ![tasks[i].sock] = @ \cup {tasks[i].g}]
          /\ emitted' = EmitToSocket(emitted, tasks[i].sock, "joined-group",
                                     0, "-", tasks[i].g, i)
          /\ tasks' = [tasks EXCEPT ![i].pc = "done", ![i].res = "ack"]
     ELSE Fail(i, "error") /\ UNCHANGED rooms
  /\ UNCHANGED <<sockUser, sockCred, sockSt, setupPc, discPc, activeUsers,
                 dbVars>>

\* socket.leave(`group:${groupId}`); left-group
RecvLeave(s, g) ==
  /\ Listening(s)
  /\ rooms' = [rooms EXCEPT ![s] = @ \ {g}]
  /\ tasks' = Append(tasks, [Task("leave-group", s, "done", "-", g, 0)
                               EXCEPT !.res = "ack"])
  /\ emitted' = EmitToSocket(emitted, s, "left-group", 0, "-", g, Len(tasks) + 1)
  /\ UNCHANGED <<sockUser, sockCred, sockSt, setupPc, discPc, activeUsers,
                 dbVars>>

\* ------------------------- the REST side: addGroupMembers, removeGroupMember
\* A request is an invocation without a socket (sock = 0); a holds
\* req.user.id.  Roles are not modelled: the requests are those of a member
\* who passes the isModerator / admin checks.  Neither controller touches
\* the rooms of the connected sockets.
RestTask(kind, by, g, pc, new) ==
  [Task(kind, 0, pc, by, g, 0) EXCEPT !.off = new]

\* the 'groupInvite' Notification of a new member
NewInvite(r) ==
  [recipient |-> r, msg |-> 0, type |-> "groupInvite", isRead |-> FALSE]

\* groupChat.members.push(...newMemberObjects); groupChat.save() resolves;
\* Notification.insertMany is issued
AddGroupMembers(by, g, u) ==
  /\ Up /\ Len(tasks) < MaxTasks
  /\ g \in GroupIds /\ by \in groupMembers[g]
  /\ u \in Users \ groupMembers[g]
  /\ groupMembers' = [groupMembers EXCEPT ![g] = @ \cup {u}]
  /\ tasks' = Append(tasks, RestTask("add-members", by, g, "invite", {u}))
  /\ UNCHANGED <<sockVars, activeUsers, userStatus, chats, messages,
                 notifications, emitted>>

\* Notification.insertMany resolves; systemMessage.save() is issued
AgInvite(i, ok) ==
  /\ i \in DOMAIN tasks /\ tasks[i].kind = "add-members" /\ tasks[i].pc = "invite"
  /\ IF ok
     THEN /\ notifications' =
               notifications (+) SetToBag({NewInvite(u) : u \in tasks[i].off})
          /\ tasks' = [tasks EXCEPT ![i].pc = "sysmsg"]
     ELSE /\ tasks' = [tasks EXCEPT ![i].pc = "done", ![i].res = "error",
                                    ![i].at = "invite"]
          /\ UNCHANGED notifications
  /\ UNCHANGED <<sockVars, activeUsers, userStatus, groupMembers, chats,
                 messages, emitted>>

\* groupChat.members.splice(memberIndex, 1); groupChat.save() resolves;
\* systemMessage.save() is issued.  The last member's leaving deletes the
\* group instead and is not modelled.
RemoveGroupMember(by, g, u) ==
  /\ Up /\ Len(tasks) < MaxTasks
  /\ g \in GroupIds /\ by \in groupMembers[g] /\ u \in groupMembers[g]
  /\ Cardinality(groupMembers[g]) > 1
  /\ groupMembers' = [groupMembers EXCEPT ![g] = @ \ {u}]
  /\ tasks' = Append(tasks, RestTask("remove-member", by, g, "sysmsg", {}))
  /\ UNCHANGED <<sockVars, activeUsers, userStatus, chats, messages,
                 notifications, emitted>>

\* systemMessage.save() resolves and the response is sent, or it rejects
\* and the catch answers 500
RestSysMsg(i, ok) ==
  /\ i \in DOMAIN tasks /\ tasks[i].pc = "sysmsg"
  /\ tasks[i].kind \in {"add-members", "remove-member"}
  /\ messages' = IF ok
                 THEN Append(messages, NewMessage(tasks[i].a, 0, tasks[i].g))
                 ELSE messages
  /\ tasks' = [tasks EXCEPT ![i].pc = "done",
                            ![i].res = IF ok THEN "ack" ELSE "error",
                            ![i].at = IF ok THEN "-" ELSE "sysmsg"]
  /\ UNCHANGED <<sockVars, activeUsers, userStatus, groupMembers, chats,
                 notifications, emitted>>

\* ------------------------------- an event before socket.on(...) has run
\* The socket is connected and its connection handler is suspended at one
\* of its awaits: the socket.on(...) calls that follow the try block have
\* not run, the event finds no listener and nothing handles it.
RecvUnattached(s, kind, r, g) ==
  /\ s \in Sockets /\ sockSt[s] = "connected"
  /\ setupPc[s] \in {"a1", "a2", "a3", "a4"}
  /\ Len(tasks) < MaxTasks
  /\ tasks' = Append(tasks, [Task(kind, s, "done", r, g, 0)
                               EXCEPT !.res = "dropped"])
  /\ UNCHANGED <<sockVars, activeUsers, dbVars, emitted>>

\* --------------------------------------------- socket.on('notification-read')
\* Notification.findByIdAndUpdate(notificationId, {isRead: true, readAt});
\* the document is named here by its recipient and its message
SetRead(ns, r, m) ==
  IF BagIn(NewNotification(r, m), ns)
  THEN (ns (-) SetToBag({NewNotification(r, m)}))
         (+) SetToBag({[NewNotification(r, m) EXCEPT !.isRead = TRUE]})
  ELSE ns

RecvNotifRead(s, r, m) ==
  /\ Listening(s)
  /\ tasks' = Append(tasks, Task("notification-read", s, "update", r, NoGroup, m))
  /\ UNCHANGED <<sockVars, activeUsers, dbVars, emitted>>

\* the update resolves, or rejects and the catch logs
NrUpdate(i, ok) ==
  /\ At(i, "notification-read", "update")
  /\ notifications' = IF ok THEN SetRead(notifications, tasks[i].a, tasks[i].n)
                             ELSE notifications
  /\ tasks' = [tasks EXCEPT ![i].pc = "done",
                            ![i].res = IF ok THEN "ack" ELSE "error",
                            ![i].at = IF ok THEN "-" ELSE "update"]
  /\ UNCHANGED <<sockVars, activeUsers, userStatus, groupMembers, chats,
                 messages, emitted>>

\* ------------------------------------------------------- the whole handler
ChatIds == 1 .. 2
MessageIds == 1 .. 2

\* the sockets that may start an invocation while fewer than n exist
Starters(n) == IF Len(tasks) < n THEN Sockets ELSE {}

\* what Notification.insertMany inserted: every document when it resolves,
\* any part of them when it rejects
Inserted(off, oks) ==
  {ins \in SUBSET off : (ins = off /\ TRUE \in oks) \/ (ins # off /\ FALSE \in oks)}

\* ------------------------------------------------------- the whole handler
\* Everything, from an empty presence map, with failing collaborator calls.
Next ==
  \/ \E tok \in Tokens({"A", "B", Ghost}) : Handshake(tok)
  \/ \E s \in Sockets, ok \in BOOLEAN : AuthFinish(s, ok)
  \/ \E s \in Sockets, ok \in BOOLEAN : Setup1(s, ok)
  \/ \E s \in Sockets, ok \in BOOLEAN : Setup2(s, ok)
  \/ \E s \in Sockets, ok \in BOOLEAN : Setup3(s, ok)
  \/ \E s \in Sockets, ok \in BOOLEAN : Setup4(s, ok)
  \/ \E s \in Sockets : Disconnect(s)
  \/ \E s \in Sockets, ok \in BOOLEAN : Disc1(s, ok)
  \/ \E s \in Sockets, ok \in BOOLEAN : Disc2(s, ok)
  \/ \E s \in Starters(MaxOps) : \E r \in Users \ {sockUser[s]} : RecvPrivate(s, r)
  \/ \E i \in DOMAIN tasks, ok \in BOOLEAN : PmFind(i, ok)
  \/ \E i \in DOMAIN tasks, ok \in BOOLEAN : PmSaveChat(i, ok)
  \/ \E i \in DOMAIN tasks, ok \in BOOLEAN : PmSaveMsg(i, ok)
  \/ \E i \in DOMAIN tasks, ok \in BOOLEAN : PmPopulate(i, ok)
  \/ \E i \in DOMAIN tasks, ok \in BOOLEAN : PmSaveNotif(i, ok)
  \/ \E s \in Starters(MaxOps), g \in GroupIds \cup {NoGroup} : RecvGroup(s, g)
  \/ \E i \in DOMAIN tasks, ok \in BOOLEAN : GmFind(i, ok)
  \/ \E i \in DOMAIN tasks, ok \in BOOLEAN : GmSaveGroup(i, ok)
  \/ \E i \in DOMAIN tasks, ok \in BOOLEAN : GmSaveMsg(i, ok)
  \/ \E i \in DOMAIN tasks, ok \in BOOLEAN : GmPopulate(i, ok)
  \/ \E i \in DOMAIN tasks : \E ins \in Inserted(tasks[i].off, BOOLEAN) : GmInsert(i, ins)
  \/ \E s \in Starters(MaxOps), n \in ChatIds : RecvTypingStart(s, n, "-")
  \/ \E s \in Starters(MaxOps), g \in GroupIds : RecvTypingStart(s, 0, g)
  \/ \E s \in Starters(MaxOps) : RecvTypingStartNoPayload(s)
  \/ \E i \in DOMAIN tasks, ok \in BOOLEAN : TsFind(i, ok)
  \/ \E s \in Starters(MaxOps), n \in ChatIds : RecvTypingEnd(s, n, "-")
  \/ \E s \in Starters(MaxOps), g \in GroupIds : RecvTypingEnd(s, 0, g)
  \/ \E i \in DOMAIN tasks, ok \in BOOLEAN : TeFind(i, ok)
  \/ \E s \in Starters(MaxOps), n \in MessageIds : RecvMarkRead(s, n)
  \/ \E i \in DOMAIN tasks, ok \in BOOLEAN : MrFind(i, ok)
  \/ \E i \in DOMAIN tasks, ok \in BOOLEAN : MrSave(i, ok)
  \/ \E s \in Starters(MaxOps), n \in ChatIds : RecvMarkAll(s, n, "-")
  \/ \E s \in Starters(MaxOps), g \in GroupIds : RecvMarkAll(s, 0, g)
  \/ \E i \in DOMAIN tasks, ok \in BOOLEAN : MaFind(i, ok)
  \/ \E i \in DOMAIN tasks, m \in MessageIds, ok \in BOOLEAN : MaUpdate(i, m, ok)
  \/ \E s \in Starters(MaxOps), st \in Statuses \cup {"busy"} : RecvSetStatus(s, st)
  \/ \E i \in DOMAIN tasks, ok \in BOOLEAN : SsUpdate(i, ok)
  \/ \E i \in DOMAIN tasks, ok \in BOOLEAN : SsFriends(i, ok)
  \/ \E s \in Starters(MaxOps), g \in GroupIds \cup {NoGroup} : RecvJoin(s, g)
  \/ \E i \in DOMAIN tasks, ok \in BOOLEAN : JgFind(i, ok)
  \/ \E s \in Starters(MaxOps), g \in GroupIds : RecvLeave(s, g)
  \/ \E s \in Starters(MaxOps), r \in Users, m \in MessageIds : RecvNotifRead(s, r, m)
  \/ \E i \in DOMAIN tasks, ok \in BOOLEAN : NrUpdate(i, ok)
  \/ \E s \in Starters(MaxOps) : \E r \in Users \ {sockUser[s]} :
        RecvUnattached(s, "send-private-message", r, "-")
  \/ \E s \in Starters(MaxOps), g \in GroupIds :
        RecvUnattached(s, "send-group-message", "-", g)
  \/ \E by \in Users, g \in GroupIds, u \in Users : AddGroupMembers(by, g, u)
  \/ \E i \in DOMAIN tasks, ok \in BOOLEAN : AgInvite(i, ok)
  \/ \E by \in Users, g \in GroupIds, u \in Users : RemoveGroupMember(by, g, u)
  \/ \E i \in DOMAIN tasks, ok \in BOOLEAN : RestSysMsg(i, ok)

Spec == Init /\ [][Next]_vars

\* ------------------------------------------------ connection lifecycle only
NextConn ==
  \/ \E tok \in Tokens({"A", "B", Ghost}) : Handshake(tok)
  \/ \E s \in Sockets, ok \in BOOLEAN : AuthFinish(s, ok)
  \/ \E s \in Sockets, ok \in BOOLEAN : Setup1(s, ok)
  \/ \E s \in Sockets, ok \in BOOLEAN : Setup2(s, ok)
  \/ \E s \in Sockets, ok \in BOOLEAN : Setup3(s, ok)
  \/ \E s \in Sockets, ok \in BOOLEAN : Setup4(s, ok)
  \/ \E s \in Sockets : Disconnect(s)
  \/ \E s \in Sockets, ok \in BOOLEAN : Disc1(s, ok)
  \/ \E s \in Sockets, ok \in BOOLEAN : Disc2(s, ok)

SpecConn == Init /\ [][NextConn]_vars

\* -------------- sends between two connected users, a third one being away
InitSend ==
  /\ groupMembers = [g \in GroupIds |-> {"A", "B", "C"}]
  /\ chats = <<>>
  /\ messages = <<>>
  /\ notifications = EmptyBag
  /\ InitConnected(<<"A", "B">>)

NextSend ==
  \/ \E s \in Sockets : Disconnect(s)
  \/ \E s \in Sockets, ok \in {TRUE} : Disc1(s, ok)
  \/ \E s \in Sockets, ok \in {TRUE} : Disc2(s, ok)
  \/ \E s \in Sockets : \E r \in Users \ {sockUser[s]} : RecvPrivate(s, r)
  \/ \E i \in DOMAIN tasks, ok \in {TRUE} : PmFind(i, ok)
  \/ \E i \in DOMAIN tasks, ok \in {TRUE} : PmSaveChat(i, ok)
  \/ \E i \in DOMAIN tasks, ok \in {TRUE} : PmSaveMsg(i, ok)
  \/ \E i \in DOMAIN tasks, ok \in {TRUE} : PmPopulate(i, ok)
  \/ \E i \in DOMAIN tasks, ok \in {TRUE} : PmSaveNotif(i, ok)
  \/ \E s \in Sockets, g \in GroupIds \cup {NoGroup} : RecvGroup(s, g)
  \/ \E i \in DOMAIN tasks, ok \in {TRUE} : GmFind(i, ok)
  \/ \E i \in DOMAIN tasks, ok \in {TRUE} : GmSaveGroup(i, ok)
  \/ \E i \in DOMAIN tasks, ok \in {TRUE} : GmSaveMsg(i, ok)
  \/ \E i \in DOMAIN tasks, ok \in {TRUE} : GmPopulate(i, ok)
  \/ \E i \in DOMAIN tasks : \E ins \in Inserted(tasks[i].off, {TRUE}) : GmInsert(i, ins)
  \/ \E s \in Sockets, g \in GroupIds \cup {NoGroup} : RecvJoin(s, g)
  \/ \E i \in DOMAIN tasks, ok \in {TRUE} : JgFind(i, ok)
  \/ \E s \in Sockets, g \in GroupIds : RecvLeave(s, g)

SpecSend == InitSend /\ [][NextSend]_vars

\* ------------------------------- the same with failing collaborator calls
NextFanout ==
  \/ \E s \in Sockets : Disconnect(s)
  \/ \E s \in Sockets, ok \in BOOLEAN : Disc1(s, ok)
  \/ \E s \in Sockets, ok \in BOOLEAN : Disc2(s, ok)
  \/ \E s \in Starters(MaxOps) : \E r \in Users \ {sockUser[s]} : RecvPrivate(s, r)
  \/ \E i \in DOMAIN tasks, ok \in BOOLEAN : PmFind(i, ok)
  \/ \E i \in DOMAIN tasks, ok \in BOOLEAN : PmSaveChat(i, ok)
  \/ \E i \in DOMAIN tasks, ok \in BOOLEAN : PmSaveMsg(i, ok)
  \/ \E i \in DOMAIN tasks, ok \in BOOLEAN : PmPopulate(i, ok)
  \/ \E i \in DOMAIN tasks, ok \in BOOLEAN : PmSaveNotif(i, ok)
  \/ \E s \in Starters(MaxOps), g \in GroupIds \cup {NoGroup} : RecvGroup(s, g)
  \/ \E i \in DOMAIN tasks, ok \in BOOLEAN : GmFind(i, ok)
  \/ \E i \in DOMAIN tasks, ok \in BOOLEAN : GmSaveGroup(i, ok)
  \/ \E i \in DOMAIN tasks, ok \in BOOLEAN : GmSaveMsg(i, ok)
  \/ \E i \in DOMAIN tasks, ok \in BOOLEAN : GmPopulate(i, ok)
  \/ \E i \in DOMAIN tasks : \E ins \in Inserted(tasks[i].off, BOOLEAN) : GmInsert(i, ins)

SpecFanout == InitSend /\ [][NextFanout]_vars

\* --------- outsiders: C is neither in the chat nor in the group; B is away
InitAuthz == InitStore /\ InitConnected(<<"A", "C">>)

NextAuthz ==
  \/ \E s \in Sockets, g \in GroupIds \cup {NoGroup} : RecvGroup(s, g)
  \/ \E i \in DOMAIN tasks, ok \in {TRUE} : GmFind(i, ok)
  \/ \E i \in DOMAIN tasks, ok \in {TRUE} : GmSaveGroup(i, ok)
  \/ \E i \in DOMAIN tasks, ok \in {TRUE} : GmSaveMsg(i, ok)
  \/ \E i \in DOMAIN tasks, ok \in {TRUE} : GmPopulate(i, ok)
  \/ \E i \in DOMAIN tasks : \E ins \in Inserted(tasks[i].off, {TRUE}) : GmInsert(i, ins)
  \/ \E s \in Sockets, n \in ChatIds : RecvTypingStart(s, n, "-")
  \/ \E s \in Sockets, g \in GroupIds : RecvTypingStart(s, 0, g)
  \/ \E i \in DOMAIN tasks, ok \in {TRUE} : TsFind(i, ok)
  \/ \E s \in Sockets, n \in MessageIds : RecvMarkRead(s, n)
  \/ \E i \in DOMAIN tasks, ok \in {TRUE} : MrFind(i, ok)
  \/ \E i \in DOMAIN tasks, ok \in {TRUE} : MrSave(i, ok)

SpecAuthz == InitAuthz /\ [][NextAuthz]_vars

\* ------------------------------------------------- read receipts: A and B
InitRead == InitStore /\ InitConnected(<<"A", "B">>)

NextRead ==
  \/ \E s \in Sockets, n \in MessageIds : RecvMarkRead(s, n)
  \/ \E i \in DOMAIN tasks, ok \in {TRUE} : MrFind(i, ok)
  \/ \E i \in DOMAIN tasks, ok \in {TRUE} : MrSave(i, ok)
  \/ \E s \in Sockets, n \in ChatIds : RecvMarkAll(s, n, "-")
  \/ \E s \in Sockets, g \in GroupIds : RecvMarkAll(s, 0, g)
  \/ \E i \in DOMAIN tasks, ok \in {TRUE} : MaFind(i, ok)
  \/ \E i \in DOMAIN tasks, m \in MessageIds, ok \in {TRUE} : MaUpdate(i, m, ok)

SpecRead == InitRead /\ [][NextRead]_vars

\* mark-as-read handled one invocation after the other
Quiet == \A i \in DOMAIN tasks : tasks[i].pc = "done"

NextReadSeq ==
  \/ \E s \in (IF Quiet THEN Sockets ELSE {}), n \in MessageIds : RecvMarkRead(s, n)
  \/ \E i \in DOMAIN tasks, ok \in BOOLEAN : MrFind(i, ok)
  \/ \E i \in DOMAIN tasks, ok \in BOOLEAN : MrSave(i, ok)

SpecReadSeq == InitRead /\ [][NextReadSeq]_vars

\* ------------- typing and read receipts of A and B, with failing calls and
\* events that carry no payload
NextIsolation ==
  \/ \E s \in Sockets, n \in ChatIds : RecvTypingStart(s, n, "-")
  \/ \E s \in Sockets, g \in GroupIds : RecvTypingStart(s, 0, g)
  \/ \E s \in Sockets : RecvTypingStartNoPayload(s)
  \/ \E i \in DOMAIN tasks, ok \in BOOLEAN : TsFind(i, ok)
  \/ \E s \in Sockets, n \in MessageIds : RecvMarkRead(s, n)
  \/ \E i \in DOMAIN tasks, ok \in BOOLEAN : MrFind(i, ok)
  \/ \E i \in DOMAIN tasks, ok \in BOOLEAN : MrSave(i, ok)

SpecIsolation == InitRead /\ [][NextIsolation]_vars

\* ---- connections only, clients connecting one after the other: nobody
\* opens a connection while another one is still being authenticated, so
\* the sockets reach io.on('connection') in the order of their ids
Authenticating == {s \in Sockets : sockSt[s] = "auth"}

NextSupersede ==
  \/ \E tok \in (IF Authenticating = {} THEN Tokens({"A", "B"}) ELSE {}) :
       Handshake(tok)
  \/ \E s \in Sockets, ok \in BOOLEAN : AuthFinish(s, ok)
  \/ \E s \in Sockets, ok \in BOOLEAN : Setup1(s, ok)
  \/ \E s \in Sockets, ok \in BOOLEAN : Setup2(s, ok)
  \/ \E s \in Sockets, ok \in BOOLEAN : Setup3(s, ok)
  \/ \E s \in Sockets, ok \in BOOLEAN : Setup4(s, ok)

SpecSupersede == Init /\ [][NextSupersede]_vars

\* ------ private sends of A and C, nobody having a chat yet and B being away
InitFirst ==
  /\ groupMembers = [g \in GroupIds |-> {"A", "B"}]
  /\ chats = <<>>
  /\ messages = <<>>
  /\ notifications = EmptyBag
  /\ InitConnected(<<"A", "C">>)

NextFirst ==
  \/ \E s \in Sockets : \E r \in Users \ {sockUser[s]} : RecvPrivate(s, r)
  \/ \E i \in DOMAIN tasks, ok \in BOOLEAN : PmFind(i, ok)
  \/ \E i \in DOMAIN tasks, ok \in BOOLEAN : PmSaveChat(i, ok)
  \/ \E i \in DOMAIN tasks, ok \in BOOLEAN : PmSaveMsg(i, ok)
  \/ \E i \in DOMAIN tasks, ok \in BOOLEAN : PmPopulate(i, ok)
  \/ \E i \in DOMAIN tasks, ok \in BOOLEAN : PmSaveNotif(i, ok)

SpecFirst == InitFirst /\ [][NextFirst]_vars

\* ---- typing in a group of A, B and C: A is connected, one more connection
\* is opened by A or B
InitTyping ==
  /\ groupMembers = [g \in GroupIds |-> {"A", "B", "C"}]
  /\ chats = <<<<"A", "B">>>>
  /\ messages = <<>>
  /\ notifications = EmptyBag
  /\ InitConnected(<<"A">>)

NextTyping ==
  \/ \E tok \in Tokens({"A", "B"}) : Handshake(tok)
  \/ \E s \in Sockets, ok \in BOOLEAN : AuthFinish(s, ok)
  \/ \E s \in Sockets, ok \in BOOLEAN : Setup1(s, ok)
  \/ \E s \in Sockets, ok \in BOOLEAN : Setup2(s, ok)
  \/ \E s \in Sockets, ok \in BOOLEAN : Setup3(s, ok)
  \/ \E s \in Sockets, ok \in BOOLEAN : Setup4(s, ok)
  \/ \E s \in Sockets, n \in ChatIds : RecvTypingStart(s, n, "-")
  \/ \E s \in Sockets, g \in GroupIds : RecvTypingStart(s, 0, g)
  \/ \E i \in DOMAIN tasks, ok \in BOOLEAN : TsFind(i, ok)

SpecTyping == InitTyping /\ [][NextTyping]_vars

\* ---------- presence: connections of A, B (friends) and C, and set-status
NextPresence ==
  \/ \E tok \in Tokens({"A", "B", "C"}) : Handshake(tok)
  \/ \E s \in Sockets, ok \in BOOLEAN : AuthFinish(s, ok)
  \/ \E s \in Sockets, ok \in BOOLEAN : Setup1(s, ok)
  \/ \E s \in Sockets, ok \in BOOLEAN : Setup2(s, ok)
  \/ \E s \in Sockets, ok \in BOOLEAN : Setup3(s, ok)
  \/ \E s \in Sockets, ok \in BOOLEAN : Setup4(s, ok)
  \/ \E s \in Sockets : Disconnect(s)
  \/ \E s \in Sockets, ok \in BOOLEAN : Disc1(s, ok)
  \/ \E s \in Sockets, ok \in BOOLEAN : Disc2(s, ok)
  \/ \E s \in Starters(MaxOps), st \in Statuses \cup {"busy"} : RecvSetStatus(s, st)
  \/ \E i \in DOMAIN tasks, ok \in BOOLEAN : SsUpdate(i, ok)
  \/ \E i \in DOMAIN tasks, ok \in BOOLEAN : SsFriends(i, ok)

SpecPresence == Init /\ [][NextPresence]_vars

\* -------- typing in the chats of A with B (away) and of A with C; A and C
\* are connected and may leave
NoChat == 0

InitDirect ==
  /\ groupMembers = [g \in GroupIds |-> {"A", "B"}]
  /\ chats = <<<<"A", "B">>, <<"A", "C">>>>
  /\ messages = <<>>
  /\ notifications = EmptyBag
  /\ InitConnected(<<"A", "C">>)

NextDirect ==
  \/ \E s \in Sockets : Disconnect(s)
  \/ \E s \in Sockets, ok \in BOOLEAN : Disc1(s, ok)
  \/ \E s \in Sockets, ok \in BOOLEAN : Disc2(s, ok)
  \/ \E s \in Sockets, n \in ChatIds \cup {NoChat} : RecvTypingStart(s, n, "-")
  \/ \E i \in DOMAIN tasks, ok \in BOOLEAN : TsFind(i, ok)
  \/ \E s \in Sockets, n \in ChatIds \cup {NoChat} : RecvTypingEnd(s, n, "-")
  \/ \E i \in DOMAIN tasks, ok \in BOOLEAN : TeFind(i, ok)

SpecDirect == InitDirect /\ [][NextDirect]_vars

\* ------------------------- set-status of the friends A and B, who may leave
NextStatus ==
  \/ \E s \in Sockets : Disconnect(s)
  \/ \E s \in Sockets, ok \in {TRUE} : Disc1(s, ok)
  \/ \E s \in Sockets, ok \in {TRUE} : Disc2(s, ok)
  \/ \E s \in Sockets, st \in {"away", "offline", "busy"} : RecvSetStatus(s, st)
  \/ \E i \in DOMAIN tasks, ok \in BOOLEAN : SsUpdate(i, ok)
  \/ \E i \in DOMAIN tasks, ok \in BOOLEAN : SsFriends(i, ok)

SpecStatus == InitRead /\ [][NextStatus]_vars

\* ------------- mark-as-read of A and B with failing calls; both may leave
NextReceipt ==
  \/ \E s \in Sockets : Disconnect(s)
  \/ \E s \in Sockets, ok \in {TRUE} : Disc1(s, ok)
  \/ \E s \in Sockets, ok \in {TRUE} : Disc2(s, ok)
  \/ \E s \in Sockets, n \in MessageIds : RecvMarkRead(s, n)
  \/ \E i \in DOMAIN tasks, ok \in BOOLEAN : MrFind(i, ok)
  \/ \E i \in DOMAIN tasks, ok \in BOOLEAN : MrSave(i, ok)

SpecReceipt == InitRead /\ [][NextReceipt]_vars

\* ---- mark-all-as-read of A and of the outsider C, with failing calls
NextReadAll ==
  \/ \E s \in Sockets, n \in ChatIds : RecvMarkAll(s, n, "-")
  \/ \E s \in Sockets, g \in GroupIds : RecvMarkAll(s, 0, g)
  \/ \E i \in DOMAIN tasks, ok \in BOOLEAN : MaFind(i, ok)
  \/ \E i \in DOMAIN tasks, m \in MessageIds, ok \in BOOLEAN : MaUpdate(i, m, ok)

SpecReadAll == InitAuthz /\ [][NextReadAll]_vars

\* --- join-group and leave-group of the member A and the non-member C, who
\* may leave
NextJoin ==
  \/ \E s \in Sockets : Disconnect(s)
  \/ \E s \in Sockets, ok \in {TRUE} : Disc1(s, ok)
  \/ \E s \in Sockets, ok \in {TRUE} : Disc2(s, ok)
  \/ \E s \in Sockets, g \in GroupIds \cup {NoGroup} : RecvJoin(s, g)
  \/ \E i \in DOMAIN tasks, ok \in BOOLEAN : JgFind(i, ok)
  \/ \E s \in Sockets, g \in GroupIds \cup {NoGroup} : RecvLeave(s, g)

SpecJoin == InitAuthz /\ [][NextJoin]_vars

\* --- every listener on the socket of A, which has a Notification of B's
\* message and may disconnect, while B connects
InitFrame ==
  /\ groupMembers = [g \in GroupIds |-> {"A", "B"}]
  /\ chats = <<<<"A", "B">>>>
  /\ messages = <<[sender |-> "B", chat |-> 1, group |-> "-", readBy |-> <<"B">>]>>
  /\ notifications = SetToBag({NewNotification("A", 1)})
  /\ InitConnected(<<"A">>)

\* A emits its next event when its earlier ones have been handled
FrameStarters ==
  IF Quiet THEN {s \in Starters(MaxOps) : sockUser[s] = "A"} ELSE {}

NextFrame ==
  \/ \E tok \in {t \in Tokens({"B"}) : TokenVerifies(t)} : Handshake(tok)
  \/ \E s \in Sockets, ok \in {TRUE} : AuthFinish(s, ok)
  \/ \E s \in Sockets, ok \in BOOLEAN : Setup1(s, ok)
  \/ \E s \in Sockets, ok \in {TRUE} : Setup2(s, ok)
  \/ \E s \in Sockets, ok \in {TRUE} : Setup3(s, ok)
  \/ \E s \in Sockets, ok \in {TRUE} : Setup4(s, ok)
  \/ \E s \in {r \in Sockets : sockUser[r] = "A"} : Disconnect(s)
  \/ \E s \in Sockets, ok \in BOOLEAN : Disc1(s, ok)
  \/ \E s \in Sockets, ok \in {TRUE} : Disc2(s, ok)
  \/ \E s \in FrameStarters : \E r \in {"B"} \ {sockUser[s]} : RecvPrivate(s, r)
  \/ \E i \in DOMAIN tasks, ok \in {TRUE} : PmFind(i, ok)
  \/ \E i \in DOMAIN tasks, ok \in {TRUE} : PmSaveChat(i, ok)
  \/ \E i \in DOMAIN tasks, ok \in {TRUE} : PmSaveMsg(i, ok)
  \/ \E i \in DOMAIN tasks, ok \in {TRUE} : PmPopulate(i, ok)
  \/ \E i \in DOMAIN tasks, ok \in {TRUE} : PmSaveNotif(i, ok)
  \/ \E s \in FrameStarters, g \in GroupIds : RecvGroup(s, g)
  \/ \E i \in DOMAIN tasks, ok \in {TRUE} : GmFind(i, ok)
  \/ \E i \in DOMAIN tasks, ok \in {TRUE} : GmSaveGroup(i, ok)
  \/ \E i \in DOMAIN tasks, ok \in {TRUE} : GmSaveMsg(i, ok)
  \/ \E i \in DOMAIN tasks, ok \in {TRUE} : GmPopulate(i, ok)
  \/ \E i \in DOMAIN tasks : \E ins \in Inserted(tasks[i].off, {TRUE}) : GmInsert(i, ins)
  \/ \E s \in FrameStarters, n \in {1} : RecvTypingStart(s, n, "-")
  \/ \E i \in DOMAIN tasks, ok \in {TRUE} : TsFind(i, ok)
  \/ \E s \in FrameStarters, n \in {1} : RecvTypingEnd(s, n, "-")
  \/ \E i \in DOMAIN tasks, ok \in {TRUE} : TeFind(i, ok)
  \/ \E s \in FrameStarters, n \in {1} : RecvMarkRead(s, n)
  \/ \E i \in DOMAIN tasks, ok \in {TRUE} : MrFind(i, ok)
  \/ \E i \in DOMAIN tasks, ok \in {TRUE} : MrSave(i, ok)
  \/ \E s \in FrameStarters, n \in {1} : RecvMarkAll(s, n, "-")
  \/ \E i \in DOMAIN tasks, ok \in {TRUE} : MaFind(i, ok)
  \/ \E i \in DOMAIN tasks, m \in MessageIds, ok \in {TRUE} : MaUpdate(i, m, ok)
  \/ \E s \in FrameStarters, st \in {"offline", "away"} : RecvSetStatus(s, st)
  \/ \E i \in DOMAIN tasks, ok \in {TRUE} : SsUpdate(i, ok)
  \/ \E i \in DOMAIN tasks, ok \in {TRUE} : SsFriends(i, ok)
  \/ \E s \in FrameStarters, g \in GroupIds : RecvJoin(s, g)
  \/ \E i \in DOMAIN tasks, ok \in {TRUE} : JgFind(i, ok)
  \/ \E s \in FrameStarters, g \in GroupIds : RecvLeave(s, g)
  \/ \E s \in FrameStarters, r \in {"A"}, m \in {1} : RecvNotifRead(s, r, m)
  \/ \E i \in DOMAIN tasks, ok \in {TRUE} : NrUpdate(i, ok)

SpecFrame == InitFrame /\ [][NextFrame]_vars

\* --- sends of A, whose connection may close at any point, to B, who stays
\* connected, and to C, who is away
SenderSockets == {s \in Sockets : sockUser[s] = "A"}

NextAway ==
  \/ \E s \in SenderSockets : Disconnect(s)
  \/ \E s \in Sockets, ok \in BOOLEAN : Disc1(s, ok)
  \/ \E s \in Sockets, ok \in BOOLEAN : Disc2(s, ok)
  \/ \E s \in Starters(MaxOps) \cap SenderSockets :
        \E r \in Users \ {sockUser[s]} : RecvPrivate(s, r)
  \/ \E i \in DOMAIN tasks, ok \in BOOLEAN : PmFind(i, ok)
  \/ \E i \in DOMAIN tasks, ok \in BOOLEAN : PmSaveChat(i, ok)
  \/ \E i \in DOMAIN tasks, ok \in BOOLEAN : PmSaveMsg(i, ok)
  \/ \E i \in DOMAIN tasks, ok \in BOOLEAN : PmPopulate(i, ok)
  \/ \E i \in DOMAIN tasks, ok \in BOOLEAN : PmSaveNotif(i, ok)
  \/ \E s \in Starters(MaxOps) \cap SenderSockets, g \in GroupIds : RecvGroup(s, g)
  \/ \E i \in DOMAIN tasks, ok \in BOOLEAN : GmFind(i, ok)
  \/ \E i \in DOMAIN tasks, ok \in BOOLEAN : GmSaveGroup(i, ok)
  \/ \E i \in DOMAIN tasks, ok \in BOOLEAN : GmSaveMsg(i, ok)
  \/ \E i \in DOMAIN tasks, ok \in BOOLEAN : GmPopulate(i, ok)
  \/ \E i \in DOMAIN tasks : \E ins \in Inserted(tasks[i].off, BOOLEAN) : GmInsert(i, ins)

SpecAway == InitSend /\ [][NextAway]_vars

\* --- A connects and sends to B, also while its connection handler is
\* still awaiting
NextEarly ==
  \/ \E tok \in Tokens({"A"}) : Handshake(tok)
  \/ \E s \in Sockets, ok \in BOOLEAN : AuthFinish(s, ok)
  \/ \E s \in Sockets, ok \in BOOLEAN : Setup1(s, ok)
  \/ \E s \in Sockets, ok \in BOOLEAN : Setup2(s, ok)
  \/ \E s \in Sockets, ok \in BOOLEAN : Setup3(s, ok)
  \/ \E s \in Sockets, ok \in BOOLEAN : Setup4(s, ok)
  \/ \E s \in Sockets : RecvUnattached(s, "send-private-message", "B", "-")
  \/ \E s \in Sockets, g \in GroupIds : RecvUnattached(s, "send-group-message", "-", g)
  \/ \E s \in Sockets : RecvPrivate(s, "B")
  \/ \E i \in DOMAIN tasks, ok \in BOOLEAN : PmFind(i, ok)
  \/ \E i \in DOMAIN tasks, ok \in BOOLEAN : PmSaveChat(i, ok)
  \/ \E i \in DOMAIN tasks, ok \in BOOLEAN : PmSaveMsg(i, ok)
  \/ \E i \in DOMAIN tasks, ok \in BOOLEAN : PmPopulate(i, ok)
  \/ \E i \in DOMAIN tasks, ok \in BOOLEAN : PmSaveNotif(i, ok)
  \/ \E s \in Sockets, g \in GroupIds : RecvGroup(s, g)
  \/ \E i \in DOMAIN tasks, ok \in BOOLEAN : GmFind(i, ok)
  \/ \E i \in DOMAIN tasks, ok \in BOOLEAN : GmSaveGroup(i, ok)
  \/ \E i \in DOMAIN tasks, ok \in BOOLEAN : GmSaveMsg(i, ok)
  \/ \E i \in DOMAIN tasks, ok \in BOOLEAN : GmPopulate(i, ok)
  \/ \E i \in DOMAIN tasks : \E ins \in Inserted(tasks[i].off, BOOLEAN) : GmInsert(i, ins)

SpecEarly == Init /\ [][NextEarly]_vars

\* --- group sends while the REST side adds and removes members: A and B
\* are members, C is not, all three are connected and C may disconnect
InitMembers ==
  /\ groupMembers = [g \in GroupIds |-> {"A", "B"}]
  /\ chats = <<>>
  /\ messages = <<>>
  /\ notifications = EmptyBag
  /\ InitConnected(<<"A", "B", "C">>)

NextMembers ==
  \/ \E s \in {r \in Sockets : sockUser[r] = "C"} : Disconnect(s)
  \/ \E s \in Sockets, ok \in {TRUE} : Disc1(s, ok)
  \/ \E s \in Sockets, ok \in {TRUE} : Disc2(s, ok)
  \/ \E by \in Users, g \in GroupIds, u \in Users : AddGroupMembers(by, g, u)
  \/ \E i \in DOMAIN tasks, ok \in BOOLEAN : AgInvite(i, ok)
  \/ \E by \in Users, g \in GroupIds, u \in Users : RemoveGroupMember(by, g, u)
  \/ \E i \in DOMAIN tasks, ok \in BOOLEAN : RestSysMsg(i, ok)
  \/ \E s \in Sockets, g \in GroupIds : RecvGroup(s, g)
  \/ \E i \in DOMAIN tasks, ok \in {TRUE} : GmFind(i, ok)
  \/ \E i \in DOMAIN tasks, ok \in {TRUE} : GmSaveGroup(i, ok)
  \/ \E i \in DOMAIN tasks, ok \in {TRUE} : GmSaveMsg(i, ok)
  \/ \E i \in DOMAIN tasks, ok \in {TRUE} : GmPopulate(i, ok)
  \/ \E i \in DOMAIN tasks : \E ins \in Inserted(tasks[i].off, {TRUE}) : GmInsert(i, ins)
  \/ \E s \in Sockets, g \in GroupIds : RecvJoin(s, g)
  \/ \E i \in DOMAIN tasks, ok \in {TRUE} : JgFind(i, ok)

SpecMembers == InitMembers /\ [][NextMembers]_vars

\* ================================================== presence map: claims
RegisteredSockets == {s \in Sockets : sockUser[s] \in rooms[s]}

\* C1: the disconnect handling of a socket does not remove a presence entry
\* that points to another socket (a newer connection of the same user): an
\* entry whose handle is not the disconnecting socket survives the step in
\* which that socket's handler deletes from the map.
C1_UnregisterGuard ==
  [][\A s \in Sockets :
       (discPc[s] = "d1" /\ discPc'[s] = "d2")
         => \A e \in activeUsers : e[2] # s => e \in activeUsers']_vars

\* C4: the presence map holds at most one entry per user id, and a
\* registration leaves the registered handle as the user's only entry.
C4_RegistryUnique ==
  /\ [](\A e1, e2 \in activeUsers : e1[1] = e2[1] => e1 = e2)
  /\ [][\A s \in Sockets :
          (setupPc[s] = "a1" /\ setupPc'[s] = "a2")
            => {e \in activeUsers' : e[1] = sockUser[s]} = {<<sockUser[s], s>>}]_vars

\* C4 witness: two connected sockets of one user have both registered.
C4_Witness ==
  \E s1, s2 \in RegisteredSockets :
    s1 # s2 /\ sockUser[s1] = sockUser[s2] /\ RegHas(activeUsers, sockUser[s1])

\* the credential of socket s does not name an existing user
BadCredential(s) == sockCred[s] # "jwt" \/ sockUser[s] \notin Users

\* C9 (as a final result): once a connection is closed and the connection
\* handler and the disconnect handling of that socket have nothing left to
\* run, no presence entry points to its handle.
C9_DisconnectCleansUp ==
  \A s \in Sockets :
    (sockSt[s] = "closed" /\ setupPc[s] = "done" /\ discPc[s] \in {"none", "done"})
      => <<sockUser[s], s>> \notin activeUsers

\* C10: a connection with no token, an invalid token or a token of an
\* unknown user never becomes active: it is never connected, its connection
\* handler never starts, no listener is attached, it has no presence entry
\* and no room, and no handler invocation belongs to it.
C10_AuthGate ==
  \A s \in Sockets :
    BadCredential(s) =>
      /\ sockSt[s] \in {"auth", "rejected"}
      /\ setupPc[s] = "none" /\ discPc[s] = "none"
      /\ ~Attached(s)
      /\ rooms[s] = {}
      /\ \A e \in activeUsers : e[2] # s
      /\ \A i \in DOMAIN tasks : tasks[i].sock # s

\* C10 witness: a token of an unknown user has been rejected after the
\* lookup, next to a connection that became active.
C10_Witness ==
  \E s, r \in Sockets :
    /\ sockCred[s] = "jwt" /\ sockUser[s] = Ghost /\ sockSt[s] = "rejected"
    /\ Attached(r) /\ RegHas(activeUsers, sockUser[r])

\* ======================================================== fanout: claims
SendTasks ==
  {i \in DOMAIN tasks :
     tasks[i].kind \in {"send-private-message", "send-group-message"}}

\* the recipients of the message of invocation i: the other participant;
\* every member of the group except the sender
Recipients(i) ==
  IF tasks[i].kind = "send-private-message"
  THEN {tasks[i].a}
  ELSE groupMembers[tasks[i].g] \ {User(i)}

\* the recipients the fanout of invocation i looked up in the presence map
LookedUp(i) ==
  IF tasks[i].kind = "send-private-message"
  THEN {tasks[i].a}
  ELSE tasks[i].mem \ {User(i)}

LiveDelivered(r, m) ==
  \E e \in BagToSet(emitted) :
    /\ e.ev \in {"receive-private-message", "receive-group-message"}
    /\ e.m = m /\ sockUser[e.to] = r

Notified(r, m) ==
  \E n \in BagToSet(notifications) : n.recipient = r /\ n.msg = m

\* C2: once a send that persisted its message has finished, every recipient
\* has got exactly one of the live event and a Notification.
C2_DeliveryExclusive ==
  \A i \in SendTasks :
    (tasks[i].pc = "done" /\ tasks[i].msg # 0)
      => \A r \in Recipients(i) :
           LiveDelivered(r, tasks[i].msg) # Notified(r, tasks[i].msg)

\* the chats whose participants are exactly a and b
ChatsOf(a, b) == {c \in DOMAIN chats : {chats[c][1], chats[c][2]} = {a, b}}

\* C3: when sends from A to B and from B to A have both finished, there is
\* exactly one chat of A and B and both messages carry its id.
C3_ChatConvergence ==
  \A i, j \in SendTasks :
    ( /\ tasks[i].kind = "send-private-message"
      /\ tasks[j].kind = "send-private-message"
      /\ tasks[i].pc = "done" /\ tasks[j].pc = "done"
      /\ tasks[i].msg # 0 /\ tasks[j].msg # 0
      /\ User(i) = tasks[j].a /\ User(j) = tasks[i].a )
      => /\ Cardinality(ChatsOf(User(i), User(j))) = 1
         /\ messages[tasks[i].msg].chat = messages[tasks[j].msg].chat

Outsider(i) ==
  LET t == tasks[i] IN
  \/ /\ t.kind \in {"send-group-message", "typing-start"}
     /\ t.g \in GroupIds /\ User(i) \notin groupMembers[t.g]
  \/ /\ t.kind = "typing-start" /\ t.g = "-" /\ t.n \in DOMAIN chats
     /\ User(i) \notin {chats[t.n][1], chats[t.n][2]}
  \/ /\ t.kind = "mark-as-read" /\ t.n \in DOMAIN messages
     /\ LET m == messages[t.n] IN
          IF m.group = "-"
          THEN User(i) \notin {chats[m.chat][1], chats[m.chat][2]}
          ELSE User(i) \notin groupMembers[m.group]

\* C6: a finished send-group-message, typing-start or mark-as-read of an
\* outsider has sent an error event back to the caller and had no effect:
\* no message persisted, no typing event delivered, no read-list entry.
C6_Authorization ==
  \A i \in DOMAIN tasks :
    (tasks[i].pc = "done" /\ Outsider(i))
      => /\ \E e \in BagToSet(emitted) :
              e.t = i /\ e.to = tasks[i].sock /\ e.ev \in {"message-error", "error"}
         /\ tasks[i].msg = 0
         /\ \A e \in BagToSet(emitted) : e.t = i => e.ev # "typing"
         /\ tasks[i].kind = "mark-as-read"
              => ~AlreadyRead(messages[tasks[i].n].readBy, User(i))

\* ================================================= read receipts: claims
ReadCount(m, u) ==
  Cardinality({k \in DOMAIN messages[m].readBy : messages[m].readBy[k] = u})

\* C7: every read list holds at most one entry per user.
C7_ReadListUnique ==
  \A m \in DOMAIN messages : \A u \in Users : ReadCount(m, u) <= 1

\* C8: when a mark-as-read of a user for a message has appended the entry
\* and a later one for the same pair, started after it, has finished, the
\* list holds exactly one entry of the user, and the later invocation has
\* appended nothing and emitted nothing (no message-read, no error event).
C8_ReadIdempotent ==
  \A i, j \in DOMAIN tasks :
    ( /\ i < j
      /\ tasks[i].kind = "mark-as-read" /\ tasks[j].kind = "mark-as-read"
      /\ User(i) = User(j) /\ tasks[i].n = tasks[j].n
      /\ tasks[i].res = "pushed" /\ tasks[j].pc = "done" )
      => /\ ReadCount(tasks[j].n, User(j)) = 1
         /\ tasks[j].res \notin {"pushed", "error"}
         /\ \A e \in BagToSet(emitted) : e.t # j

\* C8 witness: the second of two mark-as-read of B for message 1 has
\* finished after the first one appended B.
C8_Witness ==
  \E i, j \in DOMAIN tasks :
    /\ i < j
    /\ tasks[i].kind = "mark-as-read" /\ tasks[j].kind = "mark-as-read"
    /\ User(i) = User(j) /\ tasks[i].n = tasks[j].n
    /\ tasks[i].res = "pushed" /\ tasks[j].pc = "done"
    /\ \E e \in BagToSet(emitted) : e.t = i /\ e.ev = "message-read"

\* ================================================= send handlers: claims
\* the events that invocation i emitted and that reached a socket
EventsOf(i) == {e \in BagToSet(emitted) : e.t = i}

\* C11: of two send-private-message invocations of one connection, the one
\* that arrived first persists its message first (the stored order is the
\* order of arrival) and has done its presence lookup and live emit before
\* the receive-private-message of the second one is emitted.
C11_ConnectionOrder ==
  \A i, j \in DOMAIN tasks :
    ( /\ i < j /\ tasks[i].sock = tasks[j].sock
      /\ tasks[i].kind = "send-private-message"
      /\ tasks[j].kind = "send-private-message"
      /\ tasks[i].res # "error" )
      => /\ tasks[j].msg # 0
              => (tasks[i].msg # 0 /\ tasks[i].msg < tasks[j].msg)
         /\ (\E e \in EventsOf(j) : e.ev = "receive-private-message")
              => tasks[i].looked

\* the notification write of invocation i rejected
NotifWriteFailed(i) == tasks[i].at \in {"saveNotif", "insert"}

\* C12: a send whose notification write rejected still ends with the
\* success acknowledgement and without message-error, and at most the one
\* recipient of the failed write is left with neither the live event nor a
\* Notification.
C12_NotifFailureIsolated ==
  \A i \in SendTasks :
    NotifWriteFailed(i)
      => /\ tasks[i].res = "ack"
         /\ \A e \in EventsOf(i) : e.ev # "message-error"
         /\ Cardinality({r \in LookedUp(i) :
              r \notin tasks[i].reg /\ ~Notified(r, tasks[i].msg)}) <= 1

\* message.save() of invocation i rejected
MessageSaveFailed(i) == tasks[i].at = "saveMsg"

\* C13: a send whose message.save() rejected has persisted no message, has
\* created no Notification, has emitted no receive-* event and no success
\* acknowledgement; all it emitted is one message-error to the sender's
\* own socket (none only if that socket has closed meanwhile).
C13_PersistFailureAborts ==
  \A i \in SendTasks :
    MessageSaveFailed(i)
      => /\ tasks[i].pc = "done" /\ tasks[i].res = "error" /\ tasks[i].msg = 0
         /\ \A m \in DOMAIN messages :
              \E k \in SendTasks : k # i /\ tasks[k].msg = m
         /\ \A n \in BagToSet(notifications) :
              \E k \in SendTasks : k # i /\ tasks[k].msg = n.msg
         /\ \A e \in EventsOf(i) :
              /\ e.ev = "message-error" /\ e.to = tasks[i].sock
              /\ CopiesIn(e, emitted) = 1
         /\ sockSt[tasks[i].sock] = "connected" => EventsOf(i) # {}

\* C13 witness: message.save() of a group send rejected while another
\* member's socket was in the group's room, and the sender got message-error.
C13_Witness ==
  \E i \in SendTasks :
    /\ MessageSaveFailed(i) /\ tasks[i].kind = "send-group-message"
    /\ \E s \in RoomSockets(tasks[i].g) : s # tasks[i].sock
    /\ \E e \in EventsOf(i) : e.ev = "message-error" /\ e.to = tasks[i].sock

\* the update of lastActivity of an existing chat or group rejected
LastActivityFailed(i) ==
  \/ tasks[i].at = "saveGroup"
  \/ tasks[i].at = "saveChat" /\ tasks[i].chat # 0

\* C20: a send whose last-activity update rejected has still persisted its
\* message and ended with the success acknowledgement, not message-error.
C20_LastActivityBestEffort ==
  \A i \in SendTasks :
    (tasks[i].pc = "done" /\ LastActivityFailed(i))
      => /\ tasks[i].msg # 0 /\ tasks[i].res = "ack"
         /\ \A e \in EventsOf(i) : e.ev # "message-error"

\* ============================================ failure isolation: claims
\* invocation i failed: its catch block ran, or its listener threw
Failed(i) == tasks[i].res \in {"error", "failed", "thrown"}

\* C14: a failure inside one handler invocation (a rejected collaborator
\* call, a listener called without its payload) leaves the serving process
\* running and every connection as it was: no socket is lost to a crash and
\* no other invocation is abandoned.
C14_HandlerIsolation ==
  \A i \in DOMAIN tasks :
    Failed(i)
      => /\ \A s \in Sockets : sockSt[s] # "crashed"
         /\ \A j \in DOMAIN tasks : tasks[j].pc # "dead"

\* ================================================ supersession: claims
\* C15: when two connections of one user have both registered and finished
\* their connection setup, the presence map holds the handle of the one
\* that connected later.
C15_LaterConnectWins ==
  \A s1, s2 \in RegisteredSockets :
    ( /\ s1 < s2 /\ sockUser[s1] = sockUser[s2]
      /\ sockSt[s1] = "connected" /\ sockSt[s2] = "connected"
      /\ setupPc[s1] = "done" /\ setupPc[s2] = "done" )
      => RegGet(activeUsers, sockUser[s1]) = s2

\* ================================================ first contact: claims
\* invocation i is a finished send of A to B none of whose collaborator
\* calls rejected, and the only send between A and B
FirstContact(i) ==
  /\ tasks[i].kind = "send-private-message"
  /\ User(i) = "A" /\ tasks[i].a = "B"
  /\ tasks[i].pc = "done" /\ tasks[i].at = "-"
  /\ \A j \in DOMAIN tasks \ {i} :
       tasks[j].kind = "send-private-message" => {User(j), tasks[j].a} # {"A", "B"}

\* C16: after the first send of A to B, B having no presence entry, there
\* is exactly one chat of A and B; it holds exactly one message, whose
\* read list is exactly A; exactly one Notification of type 'message' for B
\* exists for it and B got no live event; and A's socket got exactly one
\* event, private-message-sent.
C16_FirstContact ==
  \A i \in DOMAIN tasks :
    FirstContact(i)
      => /\ Cardinality(ChatsOf("A", "B")) = 1
         /\ {m \in DOMAIN messages : messages[m].chat \in ChatsOf("A", "B")}
              = {tasks[i].msg}
         /\ messages[tasks[i].msg].sender = "A"
         /\ messages[tasks[i].msg].readBy = <<"A">>
         /\ \A n \in BagToSet(notifications) :
              (n.recipient = "B" /\ messages[n.msg].sender = "A")
                => /\ n = NewNotification("B", tasks[i].msg)
                   /\ n.type = "message"
                   /\ CopiesIn(n, notifications) = 1
         /\ Notified("B", tasks[i].msg)
         /\ ~LiveDelivered("B", tasks[i].msg)
         /\ EventsOf(i) = {Ev("private-message-sent", tasks[i].sock,
                              tasks[i].msg, "-", "-", i)}
         /\ \A e \in EventsOf(i) : CopiesIn(e, emitted) = 1

\* C16 witness: the first send of A to B has finished, B being absent, next
\* to another send.
C16_Witness ==
  \E i \in DOMAIN tasks :
    /\ FirstContact(i) /\ ~RegHas(activeUsers, "B")
    /\ Notified("B", tasks[i].msg)
    /\ \E j \in DOMAIN tasks : j # i /\ tasks[j].pc = "done"

\* ================================================= group typing: claims
\* C17: in the step in which a member of group g emits typing-start for g,
\* every other member that has a presence entry gets a typing event, and
\* no socket of the sending user gets one.
C17_GroupTypingScope ==
  [][\A g \in GroupIds :
       ( /\ Len(tasks') = Len(tasks) + 1
         /\ tasks'[Len(tasks')].kind = "typing-start"
         /\ tasks'[Len(tasks')].g = g
         /\ sockUser[tasks'[Len(tasks')].sock] \in groupMembers[g] )
         => LET i == Len(tasks')
                u == sockUser[tasks'[Len(tasks')].sock]
            IN /\ \A r \in groupMembers[g] \ {u} :
                    RegHas(activeUsers, r)
                      => \E e \in BagToSet(emitted') :
                           e.t = i /\ e.ev = "typing" /\ sockUser[e.to] = r
               /\ \A e \in BagToSet(emitted') :
                    (e.t = i /\ e.ev = "typing") => sockUser[e.to] # u]_vars

\* ============================================ presence broadcast: claims
\* the user-status-change events delivered in the step
StatusEvents ==
  {e \in BagToSet(emitted') :
     e.ev = "user-status-change" /\ CopiesIn(e, emitted') > CopiesIn(e, emitted)}

\* the user whose status change is broadcast in the step ("-": no
\* broadcast): the connection handler passes Friendship.find, a set-status
\* invocation ends with its broadcast, or the disconnect handler delivers
\* an event
Broadcaster ==
  IF \E s \in Sockets : setupPc[s] = "a3" /\ setupPc'[s] = "a4"
  THEN sockUser[CHOOSE s \in Sockets : setupPc[s] = "a3" /\ setupPc'[s] = "a4"]
  ELSE IF \E i \in DOMAIN tasks :
            At(i, "set-status", "friends") /\ tasks'[i].res = "ack"
  THEN User(CHOOSE i \in DOMAIN tasks :
              At(i, "set-status", "friends") /\ tasks'[i].res = "ack")
  ELSE IF \E s \in Sockets : discPc[s] = "d2" /\ discPc'[s] = "done"
                               /\ StatusEvents # {}
  THEN sockUser[CHOOSE s \in Sockets : discPc[s] = "d2" /\ discPc'[s] = "done"]
  ELSE "-"

\* C18: a user-status-change about U is delivered only to sockets of
\* accepted friends of U that have a presence entry when it is emitted,
\* never to U, and every broadcast about U delivers it to every such friend.
C18_PresenceScope ==
  [][/\ \A e \in StatusEvents :
          /\ e.by = Broadcaster
          /\ sockUser[e.to] \in FriendIds(e.by) \ {e.by}
          /\ RegHas(activeUsers, sockUser[e.to])
     /\ Broadcaster # "-"
          => \A f \in FriendIds(Broadcaster) :
               RegHas(activeUsers, f)
                 => \E e \in StatusEvents : sockUser[e.to] = f]_vars

\* ===================================================== activation: claims
\* C19: in the step in which the listeners of a connection are attached
\* (its connection handler ends), the user has a presence entry, the socket
\* is in the room of every group of the user, the persisted status is
\* 'online', and the socket has been sent active-friends and
\* unread-notifications-count exactly once each.
C19_ActiveEstablished ==
  [][\A s \in Sockets :
       (setupPc[s] # "done" /\ setupPc'[s] = "done" /\ sockSt'[s] = "connected")
         => /\ RegHas(activeUsers', sockUser[s])
            /\ {g \in GroupIds : sockUser[s] \in groupMembers[g]} \subseteq rooms'[s]
            /\ userStatus'[sockUser[s]] = "online"
            /\ CopiesIn(Ev("active-friends", s, 0, "-", "-", 0), emitted') = 1
            /\ CopiesIn(Ev("unread-notifications-count", s, 0, "-", "-", 0),
                        emitted') = 1]_vars

\* ============================================ group recipients: claims
\* C21: a receive-group-message event goes only to sockets of members of
\* the group other than the sender of the message; no socket of the sender
\* gets receive-group-message for the sender's own message.
C21_GroupExcludesSender ==
  \A e \in BagToSet(emitted) :
    e.ev = "receive-group-message"
      => /\ sockUser[e.to] # e.by
         /\ sockUser[e.to] \in groupMembers[e.x]

\* ================================================ direct typing: claims
\* the events delivered in the step, and the event names of the typing
\* handlers
NewEvents ==
  {e \in BagToSet(emitted') : CopiesIn(e, emitted') > CopiesIn(e, emitted)}

TypingEvent(kind) == IF kind = "typing-start" THEN "typing" ELSE "stop-typing"

\* C22: the step in which a typing-start / typing-end for a direct chat
\* gets its chat delivers at most one event, typing / stop-typing, once, to
\* the registered socket of the participant that is not the caller, and
\* none if that participant has no presence entry or the chat id matches no
\* chat; it emits no error and persists nothing.
C22_DirectTypingScope ==
  [][\A i \in DOMAIN tasks :
       ( /\ tasks[i].kind \in {"typing-start", "typing-end"}
         /\ tasks[i].pc = "find" /\ tasks'[i].pc = "done" )
         => /\ UNCHANGED dbVars
            /\ tasks'[i].res = "-"
            /\ \A e \in NewEvents : CopiesIn(e, emitted') = CopiesIn(e, emitted) + 1
            /\ IF tasks[i].n \in DOMAIN chats
               THEN LET c == chats[tasks[i].n]
                        others == {c[1], c[2]} \ {User(i)}
                    IN \A e \in NewEvents :
                         /\ Cardinality(NewEvents) = 1
                         /\ e.ev = TypingEvent(tasks[i].kind) /\ e.t = i
                         /\ sockUser[e.to] \in others
                         /\ <<sockUser[e.to], e.to>> \in activeUsers
               ELSE NewEvents = {}]_vars

\* C22 witness: a typing event of A has reached a socket, and a typing-end
\* of A for the chat with the absent B has ended with no event.
C22_Witness ==
  /\ \E e \in BagToSet(emitted) : e.ev = "typing" /\ e.by = "A"
  /\ \E i \in DOMAIN tasks :
       /\ tasks[i].kind = "typing-end" /\ tasks[i].pc = "done"
       /\ tasks[i].n = 1 /\ User(i) = "A" /\ EventsOf(i) = {}

\* ============================================ status validation: claims
\* C23: a set-status whose status is none of online, away, offline is
\* answered, in the step in which it arrives, with one error event to the
\* caller, persists nothing and never emits a user-status-change; a
\* set-status with a valid status emits user-status-change only for that
\* status and only after the step in which the status was persisted.
C23_StatusValidation ==
  /\ [](\A i \in DOMAIN tasks :
          (tasks[i].kind = "set-status"
             /\ tasks[i].a \notin {"online", "away", "offline"})
            => /\ tasks[i].pc = "done" /\ tasks[i].res = "error"
               /\ \A e \in EventsOf(i) :
                    /\ e.ev = "error" /\ e.to = tasks[i].sock
                    /\ CopiesIn(e, emitted) = 1)
  /\ [][/\ \A s \in Sockets :
             ( /\ Len(tasks') = Len(tasks) + 1
               /\ tasks'[Len(tasks')].kind = "set-status"
               /\ tasks'[Len(tasks')].sock = s
               /\ tasks'[Len(tasks')].a \notin {"online", "away", "offline"} )
               => /\ UNCHANGED dbVars
                  /\ NewEvents = {Ev("error", s, 0, "-", "-", Len(tasks'))}
        /\ \A i \in DOMAIN tasks :
             tasks[i].kind = "set-status"
               => /\ (tasks[i].pc = "update" /\ tasks'[i].pc = "friends")
                       => userStatus'[User(i)] = tasks[i].a
                  /\ \A e \in NewEvents :
                       e.t = i => /\ tasks[i].pc = "friends"
                                  /\ e.ev = "user-status-change"
                                  /\ e.by = User(i) /\ e.x = tasks[i].a
                                  /\ e.x \in {"online", "away", "offline"}]_vars

\* C23 witness: an invalid status has been answered with error next to a
\* valid one that was persisted and broadcast.
C23_Witness ==
  /\ \E i \in DOMAIN tasks :
       /\ tasks[i].kind = "set-status" /\ tasks[i].a = "busy"
       /\ \E e \in EventsOf(i) : e.ev = "error"
  /\ \E i \in DOMAIN tasks :
       /\ tasks[i].kind = "set-status" /\ tasks[i].a = "away"
       /\ userStatus[User(i)] = "away"
       /\ \E e \in EventsOf(i) : e.ev = "user-status-change" /\ e.x = "away"

\* ================================================= read receipt: claims
\* the message-read event of invocation i, addressed to the socket that the
\* presence map holds for the sender of the message
ReadReceipt(i) ==
  Ev("message-read", RegGet(activeUsers, messages[tasks[i].n].sender),
     tasks[i].n, User(i), "-", i)

\* C24: the step in which message.save() of a mark-as-read resolves appends
\* the caller to the read list and delivers exactly one message-read, to the
\* registered socket of the message's sender, if the sender has a presence
\* entry (of an open socket), and no event otherwise; the step in which it
\* rejects changes no read list and emits nothing; and a message-read of an
\* invocation exists only once its entry is in the stored list.
C24_ReadReceipt ==
  /\ [](\A e \in BagToSet(emitted) :
          e.ev = "message-read"
            => /\ tasks[e.t].kind = "mark-as-read" /\ tasks[e.t].res = "pushed"
               /\ AlreadyRead(messages[e.m].readBy, e.by))
  /\ [][\A i \in DOMAIN tasks :
          (At(i, "mark-as-read", "save") /\ tasks'[i].pc = "done")
            => IF tasks'[i].res = "pushed"
               THEN /\ messages'[tasks[i].n].readBy
                         = Append(messages[tasks[i].n].readBy, User(i))
                    /\ NewEvents =
                         IF /\ RegHas(activeUsers, messages[tasks[i].n].sender)
                            /\ Reached({ReadReceipt(i).to}) # {}
                         THEN {ReadReceipt(i)}
                         ELSE {}
                    /\ \A e \in NewEvents : CopiesIn(e, emitted') = 1
               ELSE UNCHANGED <<messages, emitted>>]_vars

\* C24 witness: B's mark-as-read of A's message has appended B and the
\* message-read has reached A's socket, and the message.save() of another
\* one has rejected.
C24_Witness ==
  /\ \E i \in DOMAIN tasks :
       /\ tasks[i].kind = "mark-as-read" /\ tasks[i].res = "pushed"
       /\ \E e \in EventsOf(i) : e.ev = "message-read" /\ sockUser[e.to] = "A"
  /\ \E i \in DOMAIN tasks :
       tasks[i].kind = "mark-as-read" /\ tasks[i].at = "save"

\* ================================================ mark-all-as-read: claims
\* user u passes the access check for the chat or group of message m
HasAccess(u, m) ==
  IF messages[m].group = "-"
  THEN u \in {chats[messages[m].chat][1], chats[messages[m].chat][2]}
  ELSE u \in groupMembers[messages[m].group]

\* C25: mark-all-as-read marks nothing for a caller that does not pass the
\* access check: every user in the read list of a message is a participant
\* of its chat or a member of its group; and a finished mark-all-as-read
\* that found messages has left the caller in the read list of each.
C25_MarkAllChecksAccess ==
  /\ \A m \in DOMAIN messages :
       \A k \in DOMAIN messages[m].readBy : HasAccess(messages[m].readBy[k], m)
  /\ \A i \in DOMAIN tasks :
       (tasks[i].kind = "mark-all-as-read" /\ tasks[i].res = "ack")
         => UnreadMessages(messages, tasks[i].n, tasks[i].g, User(i)) = {}

\* =================================================== join / leave: claims
\* C26: the step in which a join-group gets its group either subscribes
\* the socket to the group and emits joined-group, and then the group
\* exists and the caller is a member, or leaves every subscription as it
\* was and emits error; the step of a leave-group removes the group from
\* the socket's subscriptions and nothing else, emits left-group, and
\* changes no subscription when the socket was not subscribed.
C26_JoinLeave ==
  [][/\ \A i \in DOMAIN tasks :
          (At(i, "join-group", "find") /\ tasks'[i].pc = "done")
            => LET s == tasks[i].sock
                   g == tasks[i].g
               IN IF tasks'[i].res = "ack"
                  THEN /\ g \in GroupIds /\ User(i) \in groupMembers[g]
                       /\ rooms' = [rooms EXCEPT ![s] = @ \cup {g}]
                       /\ NewEvents = {Ev("joined-group", r, 0, "-", g, i) :
                                         r \in Reached({s})}
                  ELSE /\ UNCHANGED rooms
                       /\ NewEvents = {Ev("error", r, 0, "-", "-", i) :
                                         r \in Reached({s})}
     /\ ( /\ Len(tasks') = Len(tasks) + 1
          /\ tasks'[Len(tasks')].kind = "leave-group" )
          => LET s == tasks'[Len(tasks')].sock
                 g == tasks'[Len(tasks')].g
             IN /\ g \notin rooms'[s]
                /\ rooms' = [rooms EXCEPT ![s] = @ \ {g}]
                /\ g \notin rooms[s] => UNCHANGED rooms
                /\ NewEvents = {Ev("left-group", s, 0, "-", g, Len(tasks'))}]_vars

\* C26 witness: the join-group of the non-member C has been answered with
\* error, and a leave-group has been answered with left-group.
C26_Witness ==
  /\ \E i \in DOMAIN tasks :
       /\ tasks[i].kind = "join-group" /\ tasks[i].g \in GroupIds
       /\ User(i) \notin groupMembers[tasks[i].g]
       /\ \E e \in EventsOf(i) : e.ev = "error"
  /\ \E i \in DOMAIN tasks :
       /\ tasks[i].kind = "leave-group"
       /\ \E e \in EventsOf(i) : e.ev = "left-group"

\* ================================================= registry frame: claims
\* the step is one of a listener invocation: an event reaches its listener
\* or one of its awaits resumes
HandlerStep == tasks' # tasks

\* the step resumes the connection handler of s after its first await
RegisterStep(s) == setupPc[s] = "a1" /\ setupPc'[s] = "a2"

\* the step resumes the disconnect handler of s after its first await
UnregisterStep(s) == discPc[s] = "d1" /\ discPc'[s] = "d2"

\* the entries that the step adds to or removes from the registry
RegistryDelta == (activeUsers' \ activeUsers) \cup (activeUsers \ activeUsers')

\* C27: a step of a listener invocation leaves the presence registry as it
\* was, and the registry changes only in the step of a connection handler
\* that registers its socket or of a disconnect handler that unregisters,
\* and then only in the entries of that socket's user.
C27_RegistryFrame ==
  [][/\ HandlerStep => activeUsers' = activeUsers
     /\ activeUsers' # activeUsers
          => \E s \in Sockets :
               /\ RegisterStep(s) \/ UnregisterStep(s)
               /\ \A e \in RegistryDelta : e[1] = sockUser[s]]_vars

\* C27 witness: a set-status 'offline' has completed, a send has saved its
\* Notification, and the registry still holds the entry of the socket that
\* did so, while the other user's connection has been registered.
C27_Witness ==
  /\ \E i \in DOMAIN tasks :
       /\ tasks[i].kind = "set-status" /\ tasks[i].a = "offline"
       /\ tasks[i].pc = "done" /\ tasks[i].res = "ack"
       /\ <<User(i), tasks[i].sock>> \in activeUsers
       /\ userStatus[User(i)] = "offline"
  /\ \E s \in Sockets : sockUser[s] = "B" /\ <<"B", s>> \in activeUsers

\* ======================================= fanout and disconnect: claims
\* the handler of invocation i ran to its end without entering its catch
Completed(i) == tasks[i].pc = "done" /\ tasks[i].res = "ack"

\* C28: when a send has persisted its message and run to its end, and the
\* sending connection has closed, every recipient has the live event or a
\* Notification of the message all the same.
C28_FanoutSurvivesDisconnect ==
  \A i \in SendTasks :
    ( /\ Completed(i) /\ tasks[i].msg # 0
      /\ sockSt[tasks[i].sock] = "closed" )
      => \A r \in Recipients(i) :
           LiveDelivered(r, tasks[i].msg) \/ Notified(r, tasks[i].msg)

\* C28 witness: a group send ran to its end on a connection that closed
\* before the acknowledgement was emitted (the sender never got it), B got
\* the live event and C a Notification.
C28_Witness ==
  \E i \in SendTasks :
    /\ tasks[i].kind = "send-group-message" /\ Completed(i)
    /\ sockSt[tasks[i].sock] = "closed"
    /\ \A e \in EventsOf(i) : e.ev # "group-message-sent"
    /\ LiveDelivered("B", tasks[i].msg) /\ ~Notified("B", tasks[i].msg)
    /\ Notified("C", tasks[i].msg) /\ ~LiveDelivered("C", tasks[i].msg)

\* ============================================= outcome of a send: claims
\* the copies of the events that answer invocation i on its own socket
Outcomes(i) ==
  LET evs == {e \in EventsOf(i) :
                /\ e.to = tasks[i].sock
                /\ e.ev \in {"private-message-sent", "group-message-sent",
                             "message-error"}}
      RECURSIVE Sum(_)
      Sum(S) == IF S = {} THEN 0
                ELSE LET e == CHOOSE x \in S : TRUE
                     IN CopiesIn(e, emitted) + Sum(S \ {e})
  IN Sum(evs)

\* C29: every send intent that reached the server on a connection that is
\* still open, and for which nothing is left to run, has been answered on
\* that connection by exactly one of the acknowledgement and message-error.
C29_OneOutcome ==
  \A i \in SendTasks :
    (tasks[i].pc = "done" /\ sockSt[tasks[i].sock] = "connected")
      => Outcomes(i) = 1

\* ======================================= presence and supersession: claims
\* r is a newer socket of the user of s that is connected, has completed
\* its connection setup and is the user's registered connection
Superseded(s, r) ==
  /\ s < r /\ sockUser[s] = sockUser[r]
  /\ Attached(r) /\ <<sockUser[r], r>> \in activeUsers

\* C30: while a newer socket of the same user is connected and set up, the
\* disconnect handling of the older socket neither changes the persisted
\* status of the user nor delivers user-status-change 'offline' about the
\* user.
C30_PresenceSupersession ==
  [][\A s, r \in Sockets :
       Superseded(s, r)
         => /\ (discPc[s] = "d1" /\ discPc'[s] # "d1")
                 => userStatus'[sockUser[s]] = userStatus[sockUser[s]]
            /\ (discPc[s] = "d2" /\ discPc'[s] = "done")
                 => \A e \in StatusEvents :
                      ~(e.by = sockUser[s] /\ e.x = "offline")]_vars

\* ============================================== group membership: claims
\* the receive-group-message events that invocation i emitted
GroupEventsOf(i) == {e \in EventsOf(i) : e.ev = "receive-group-message"}

\* a receive-group-message goes only to users that were members of the
\* group when the send that emitted it loaded the group
OnlyCurrentMembers ==
  \A i \in SendTasks :
    \A e \in GroupEventsOf(i) : sockUser[e.to] \in tasks[i].mem

\* the users that have an open connection
Online == {sockUser[s] : s \in {r \in Sockets : sockSt[r] = "connected"}}

\* every member the send loaded, other than the sender, whose connection
\* is open has the live event or a Notification once the send has run to
\* its end
EveryMemberCovered ==
  \A i \in SendTasks :
    (tasks[i].kind = "send-group-message" /\ Completed(i))
      => \A r \in (tasks[i].mem \ {User(i)}) \cap Online :
           LiveDelivered(r, tasks[i].msg) \/ Notified(r, tasks[i].msg)

\* C31: a receive-group-message of a group is delivered only to
\* connections of users that are members of the group at the time of the
\* send, a user removed from the group gets none, and every member at the
\* time of the send whose connection is open, also one added after
\* connecting, has the live event or a Notification once the send has
\* completed.
C31_CurrentMembersOnly == OnlyCurrentMembers /\ EveryMemberCovered

====
